---- MODULE Spec2Model ----
(***************************************************************************)
(* The batching and feeding pipeline of njunmt/data/text_inputter.py:      *)
(* do_bucketing, pack_feed_dict, TextLineInputter and ParallelTextInputter *)
(* with its streaming iterator _BigParallelDataIterator.                   *)
(*                                                                         *)
(* A token sequence is a non-empty sequence of integers.  Line i of the    *)
(* features corpus holds the token i repeated, line i of the labels corpus *)
(* the token -i repeated, so that every sequence carries the index of the  *)
(* source line it was read from and the side it belongs to.  A corpus is   *)
(* given by the length of each of its lines, 0 for a malformed line (one   *)
(* the reader answers None for).                                           *)
(***************************************************************************)
EXTENDS Integers, Sequences, FiniteSets, TLC

VARIABLES
    it,         \* the _BigParallelDataIterator object (readers included), and
                \* the log of the reset calls of its last _reset()
    ret,        \* what the last pull gave its caller
    stops,      \* history: end-of-epoch signals so far
    emitted,    \* history: source lines emitted in the current epoch, in order
    epoch_log,  \* history: per finished epoch, the number of pairs emitted
    line,       \* the TextLineInputter call: its reader, batch size, result
    pack,       \* the pack_feed_dict call: its arguments and its result
    call,       \* the other calls followed: do_bucketing, the pair inputter's
                \* constructor and make_feeding_data, with their results
    conn        \* the connection a TranslateRequestHandler serves: the local
                \* `response` of handle(), the messages received and the
                \* responses sent

vars == <<it, ret, stops, emitted, epoch_log, line, pack, call, conn>>

-----------------------------------------------------------------------------
(* Bounds of the model. *)

MaxLines == 2       \* lines of a corpus
MaxEpochs == 2      \* end-of-epoch signals followed
MaxDevices == 2     \* device slots (len(input_fields))
MaxBatch == 2       \* batch_size

(* Program constants. *)

CacheFactor == 128          \* self._batch_size * 128
TokenCacheFactor == 6       \* self._batch_tokens_size * 6
DefaultBatchSize == 32      \* batch_size when only batch_tokens_size is given
TokenMargin == 20           \* the margin of the token-budget growth rule

-----------------------------------------------------------------------------
(* Python helpers. *)

\* an optional value: None, or Some(v)
None == [some |-> FALSE, val |-> 0]

Some(v) == [some |-> TRUE, val |-> v]

Min(a, b) == IF a < b THEN a ELSE b

\* s[:k]
Take(s, k) == SubSeq(s, 1, Min(k, Len(s)))

\* s after del s[:k]
Drop(s, k) == SubSeq(s, Min(k, Len(s)) + 1, Len(s))

\* s[a:b], 0-based, b clipped to len(s)
Slice(s, a, b) == SubSeq(s, Min(a, Len(s)) + 1, Min(b, Len(s)))

RECURSIVE Sum(_)
Sum(s) == IF Len(s) = 0 THEN 0 ELSE s[1] + Sum(Tail(s))

\* [len(t) for t in s]
Lens(s) == [i \in 1..Len(s) |-> Len(s[i])]

RECURSIVE MaxOf(_)
MaxOf(s) == IF Len(s) = 0 THEN 0
            ELSE LET m == MaxOf(Tail(s)) IN IF s[1] > m THEN s[1] ELSE m

RECURSIVE PermsOf(_)
PermsOf(S) == IF S = {} THEN {<<>>}
              ELSE UNION {{<<x>> \o p : p \in PermsOf(S \ {x})} : x \in S}

Identity(n) == [i \in 1..n |-> i]

-----------------------------------------------------------------------------
(* The line reader (njunmt.data.data_reader.LineReader), an external       *)
(* collaborator known by its interface: next() gives a sequence, None for  *)
(* a malformed line, "" at the end of the stream; reset() rewinds, and     *)
(* when asked to shuffle reorders the source by argsort_index, or by a     *)
(* permutation of its own when none is given, and returns the one used.    *)

\* the content of line i of a corpus
MkSeq(side, i, n) == [k \in 1..n |-> IF side = "features" THEN i ELSE 0 - i]

\* the source line a sequence was read from
Src(s) == IF s[1] < 0 THEN 0 - s[1] ELSE s[1]

NewReader(side, lens) ==
    [side |-> side, lens |-> lens, order |-> Identity(Len(lens)),
     pos |-> 1, resets |-> 0, closed |-> 0, calls |-> 0]

\* reader.next(): [out |-> what it returns, rd |-> the reader afterwards]
ReaderNext(rd) ==
    IF rd.pos > Len(rd.order)
    THEN [out |-> [tag |-> "end", seq |-> <<>>],
          rd |-> [rd EXCEPT !.calls = @ + 1]]
    ELSE LET i == rd.order[rd.pos]
             n == rd.lens[i]
         IN  [out |-> IF n = 0 THEN [tag |-> "none", seq |-> <<>>]
                      ELSE [tag |-> "seq", seq |-> MkSeq(rd.side, i, n)],
              rd |-> [rd EXCEPT !.pos = @ + 1, !.calls = @ + 1]]

\* reader.reset(do_shuffle, shuffle_to_file, argsort_index); `fresh` is the
\* permutation the reader draws when it is given none
ReaderReset(rd, do_shuffle, argsort_index, fresh) ==
    LET used == IF ~do_shuffle THEN None
                ELSE IF ~argsort_index.some THEN Some(fresh) ELSE argsort_index
    IN  [perm |-> used,
         rd |-> [rd EXCEPT !.pos = 1, !.resets = @ + 1,
                           !.order = IF do_shuffle THEN used.val
                                     ELSE Identity(Len(rd.lens))]]

\* the permutations a shuffle of n lines is followed through: the lines kept
\* in place, reversed, and rotated by one
Shuffles(n) ==
    {Identity(n), [i \in 1..n |-> n + 1 - i], [i \in 1..n |-> (i % n) + 1]}

ReaderClose(rd) == [rd EXCEPT !.closed = @ + 1]

-----------------------------------------------------------------------------
(* do_bucketing *)

\* argsort putting the longest first
argsort_descending(tlen) ==
    {p \in PermsOf(1..Len(tlen)) :
        \A i \in 1..(Len(tlen) - 1) : tlen[p[i]] >= tlen[p[i + 1]]}

\* tlen.argsort(): numpy's default sort is not stable, so any permutation
\* that puts tlen in non-decreasing order may come out
argsort(tlen) ==
    {p \in PermsOf(1..Len(tlen)) :
        \A i \in 1..(Len(tlen) - 1) : tlen[p[i]] <= tlen[p[i + 1]]}

\* do_bucketing with the other list left in its old order
do_bucketing_unlinked(pivot, ele, tidx) ==
    << [i \in 1..Len(tidx) |-> pivot[tidx[i]]], <<ele>> >>

\* do_bucketing(pivot, ele) for the index array tidx
do_bucketing(pivot, ele, tidx) ==
    LET _pivot == [i \in 1..Len(tidx) |-> pivot[tidx[i]]]
        _args == << [i \in 1..Len(tidx) |-> ele[tidx[i]]] >>
    IN  <<_pivot, _args>>

\* do_bucketing(pivot, *args) with the other lists left in their old order
do_bucketing_args_unlinked(pivot, args, tidx) ==
    << [i \in 1..Len(tidx) |-> pivot[tidx[i]]], args >>

\* do_bucketing(pivot, *args) for the index array tidx, args the list of the
\* other lists, of any number
do_bucketing_args(pivot, args, tidx) ==
    LET _pivot == [i \in 1..Len(tidx) |-> pivot[tidx[i]]]
        _args == [k \in 1..Len(args) |->
                    [i \in 1..Len(tidx) |-> args[k][tidx[i]]]]
    IN  <<_pivot, _args>>

-----------------------------------------------------------------------------
(* pack_feed_dict *)

\* padding_batch_data(seqs, p) of njunmt.utils.misc: the rows of seqs padded
\* on the right with p to the longest of them, and their true lengths
padding_batch_data(seqs, p) ==
    LET x_len == Lens(seqs)
        max_len == MaxOf(x_len)
    IN  [x |-> [i \in 1..Len(seqs) |->
                  [k \in 1..max_len |->
                     IF k <= Len(seqs[i]) THEN seqs[i][k] ELSE p]],
         x_len |-> x_len]

\* repeat_n_times(n, fn, list(range(n)), input_fields) of
\* njunmt.utils.expert_utils: fn called once per device index, results listed
\* (fn given as the function from the index to what the call does)
repeat_n_times(n, fn) == [i \in 1..n |-> fn[i - 1]]

\* lines 71-73 without the rounding up
n_samples_per_gpu_floor(n_samples, n_devices) == n_samples \div n_devices

\* lines 71-73 of map_fn
n_samples_per_gpu(n_samples, n_devices) ==
    (n_samples \div n_devices) + (IF n_samples % n_devices > 0 THEN 1 ELSE 0)

\* _feed_batchs padding the whole of d and then taking the slot's rows
_feed_batchs_whole(d, p, per_gpu, _start_idx) ==
    IF _start_idx * per_gpu >= Len(d)
    THEN [count |-> 0, fed |-> FALSE, x |-> <<>>, x_len |-> <<>>]
    ELSE LET pb == padding_batch_data(d, p)
             x == Slice(pb.x, _start_idx * per_gpu, (_start_idx + 1) * per_gpu)
         IN  [count |-> Len(x), fed |-> TRUE, x |-> x,
              x_len |-> Slice(pb.x_len, _start_idx * per_gpu,
                              (_start_idx + 1) * per_gpu)]

\* _feed_batchs(_start_idx, _inpf) for data d and padding p: what it returns
\* (count) and what it stores under the slot's two placeholders, if anything
_feed_batchs(d, p, per_gpu, _start_idx) ==
    IF _start_idx * per_gpu >= Len(d)
    THEN [count |-> 0, fed |-> FALSE, x |-> <<>>, x_len |-> <<>>]
    ELSE LET pb == padding_batch_data(
                      Slice(d, _start_idx * per_gpu, (_start_idx + 1) * per_gpu), p)
         IN  [count |-> Len(pb.x_len), fed |-> TRUE, x |-> pb.x, x_len |-> pb.x_len]

\* map_fn(n, d, p): the ids stored, the per-slot feeds and the parallels list
map_fn(d, p, n_devices) ==
    LET per_gpu == n_samples_per_gpu(Len(d), n_devices)
        fn == [i \in 0..(n_devices - 1) |-> _feed_batchs(d, p, per_gpu, i)]
        slots == repeat_n_times(n_devices, fn)
    IN  [ids |-> d, slots |-> slots,
         parallels |-> [i \in 1..n_devices |-> slots[i].count]]

\* pack_feed_dict(name_prefixs, origin_datas, paddings, input_fields), the
\* arguments given as lists (a single prefix is a list of one); "parallels"
\* is the one written by the last map_fn
pack_feed_dict(name_prefixs, origin_datas, paddings, n_devices) ==
    LET n == Len(name_prefixs)
        m == [k \in 1..n |-> map_fn(origin_datas[k], paddings[k], n_devices)]
    IN  [names |-> name_prefixs,
         ids |-> [k \in 1..n |-> m[k].ids],
         feed |-> [k \in 1..n |-> m[k].slots],
         parallels |-> Some(m[n].parallels)]

-----------------------------------------------------------------------------
(* TextLineInputter *)

\* TextLineInputter.__init__(line_readers, padding_id, batch_size)
TextLineInputter(line_readers, padding_id, batch_size) ==
    IF ~batch_size.some THEN [error |-> "ValueError"]
    ELSE [error |-> "", readers |-> line_readers,
          batch_size |-> batch_size.val, padding_id |-> padding_id]

\* the drain loop taking a malformed line for the end of the stream
RECURSIVE DrainLoop_stop_at_none(_, _)
DrainLoop_stop_at_none(reader, ss_buf) ==
    LET encoded_ss == ReaderNext(reader)
    IN  IF encoded_ss.out.tag \in {"end", "none"}
        THEN [reader |-> encoded_ss.rd, ss_buf |-> ss_buf]
        ELSE DrainLoop_stop_at_none(encoded_ss.rd, Append(ss_buf, encoded_ss.out.seq))

\* lines 151-157: the reader drained into ss_buf
RECURSIVE DrainLoop(_, _)
DrainLoop(reader, ss_buf) ==
    LET encoded_ss == ReaderNext(reader)
    IN  IF encoded_ss.out.tag = "end"
        THEN [reader |-> encoded_ss.rd, ss_buf |-> ss_buf]
        ELSE IF encoded_ss.out.tag = "none"
        THEN DrainLoop(encoded_ss.rd, ss_buf)
        ELSE DrainLoop(encoded_ss.rd, Append(ss_buf, encoded_ss.out.seq))

\* lines 162-168: ss_buf cut into batches from batch_data_idx on
RECURSIVE ChunkLoop(_, _, _, _, _)
ChunkLoop(self, ss_buf, n_devices, batch_data_idx, data) ==
    IF ~(batch_data_idx < Len(ss_buf)) THEN data
    ELSE ChunkLoop(self, ss_buf, n_devices, batch_data_idx + self.batch_size,
            Append(data,
                   pack_feed_dict(
                     <<"features">>,
                     <<Slice(ss_buf, batch_data_idx, batch_data_idx + self.batch_size)>>,
                     <<self.padding_id>>, n_devices)))

\* _make_feeding_data_from(reader, input_fields, name_prefix): the list
\* returned and the reader afterwards
_make_feeding_data_from(self, reader, n_devices) ==
    LET drained == DrainLoop(reader, <<>>)
    IN  [reader |-> ReaderClose(drained.reader),
         data |-> ChunkLoop(self, drained.ss_buf, n_devices, 0, <<>>)]

-----------------------------------------------------------------------------
(* ParallelTextInputter *)

\* the constructor refusing batch_size and batch_tokens_size given together
ParallelTextInputter_one_of(a) ==
    IF a.batch_size.some = a.batch_tokens_size.some
    THEN [error |-> "ValueError"]
    ELSE [error |-> "",
          features_reader |-> a.features_reader,
          labels_reader |-> a.labels_reader,
          features_padding_id |-> a.features_padding_id,
          labels_padding_id |-> a.labels_padding_id,
          batch_size |-> IF a.batch_size.some THEN a.batch_size.val
                         ELSE DefaultBatchSize,
          batch_tokens_size |-> a.batch_tokens_size,
          shuffle_every_epoch |-> a.shuffle_every_epoch,
          fill_full_batch |-> a.fill_full_batch,
          bucketing |-> a.bucketing,
          cache_size |-> IF ~a.batch_tokens_size.some
                         THEN a.batch_size.val * CacheFactor
                         ELSE a.batch_tokens_size.val * TokenCacheFactor]

\* ParallelTextInputter.__init__(**a): the attributes set, or the ValueError
ParallelTextInputter(a) ==
    IF ~a.batch_size.some /\ ~a.batch_tokens_size.some
    THEN [error |-> "ValueError"]
    ELSE [error |-> "",
          features_reader |-> a.features_reader,
          labels_reader |-> a.labels_reader,
          features_padding_id |-> a.features_padding_id,
          labels_padding_id |-> a.labels_padding_id,
          batch_size |-> IF ~a.batch_tokens_size.some THEN a.batch_size.val
                         ELSE IF ~a.batch_size.some THEN DefaultBatchSize
                         ELSE a.batch_size.val,
          batch_tokens_size |-> a.batch_tokens_size,
          shuffle_every_epoch |-> a.shuffle_every_epoch,
          fill_full_batch |-> a.fill_full_batch,
          bucketing |-> a.bucketing,
          cache_size |-> IF ~a.batch_tokens_size.some
                         THEN a.batch_size.val * CacheFactor
                         ELSE a.batch_tokens_size.val * TokenCacheFactor]

\* lines 260-268: both readers drained into ss_buf and tt_buf
RECURSIVE DrainPairLoop(_, _, _)
DrainPairLoop(self, ss_buf, tt_buf) ==
    LET ss == ReaderNext(self.features_reader)
        tt == ReaderNext(self.labels_reader)
        read == [self EXCEPT !.features_reader = ss.rd, !.labels_reader = tt.rd]
    IN  IF ss.out.tag = "end" \/ tt.out.tag = "end"
        THEN [self |-> read, ss_buf |-> ss_buf, tt_buf |-> tt_buf]
        ELSE IF ss.out.tag = "none" \/ tt.out.tag = "none"
        THEN DrainPairLoop(read, ss_buf, tt_buf)
        ELSE DrainPairLoop(read, Append(ss_buf, ss.out.seq),
                           Append(tt_buf, tt.out.seq))

\* lines 276-284: ss_buf and tt_buf cut into batches from batch_data_idx on
RECURSIVE ChunkPairLoop(_, _, _, _, _, _)
ChunkPairLoop(self, ss_buf, tt_buf, n_devices, batch_data_idx, data) ==
    IF ~(batch_data_idx < Len(ss_buf)) THEN data
    ELSE ChunkPairLoop(self, ss_buf, tt_buf, n_devices,
            batch_data_idx + self.batch_size,
            Append(data,
                   pack_feed_dict(
                     <<"features", "labels">>,
                     <<Slice(ss_buf, batch_data_idx, batch_data_idx + self.batch_size),
                       Slice(tt_buf, batch_data_idx, batch_data_idx + self.batch_size)>>,
                     <<self.features_padding_id, self.labels_padding_id>>,
                     n_devices)))

\* _small_parallel_data cutting the drained lists by the token budget when
\* there is one
_small_parallel_data_by_tokens(self, n_devices, tidx) ==
    LET drained == DrainPairLoop(self, <<>>, <<>>)
        closed == [drained.self EXCEPT
                     !.features_reader = ReaderClose(@),
                     !.labels_reader = ReaderClose(@)]
        b == IF self.bucketing
             THEN do_bucketing(drained.tt_buf, drained.ss_buf, tidx)
             ELSE <<drained.tt_buf, <<drained.ss_buf>>>>
        size == IF self.batch_tokens_size.some THEN self.batch_tokens_size.val
                ELSE self.batch_size
    IN  [self |-> closed,
         data |-> ChunkPairLoop([closed EXCEPT !.batch_size = size],
                                b[2][1], b[1], n_devices, 0, <<>>)]

\* _small_parallel_data(input_fields): the list returned and the inputter
\* (its readers) afterwards; tidx is what argsort returns if it buckets
_small_parallel_data(self, n_devices, tidx) ==
    LET drained == DrainPairLoop(self, <<>>, <<>>)
        closed == [drained.self EXCEPT
                     !.features_reader = ReaderClose(@),
                     !.labels_reader = ReaderClose(@)]
        b == IF self.bucketing
             THEN do_bucketing(drained.tt_buf, drained.ss_buf, tidx)
             ELSE <<drained.tt_buf, <<drained.ss_buf>>>>
    IN  [self |-> closed,
         data |-> ChunkPairLoop(closed, b[2][1], b[1], n_devices, 0, <<>>)]

\* the index arrays argsort may return in _small_parallel_data
SmallTidxChoices(self) ==
    IF self.bucketing
    THEN argsort(Lens(DrainPairLoop(self, <<>>, <<>>).tt_buf))
    ELSE {<<>>}

\* make_feeding_data with the test of line 302 left out
make_feeding_data_no_shuffle_test(self, in_memory) ==
    IF in_memory /\ self.fill_full_batch THEN "ValueError"
    ELSE IF in_memory THEN "list"
    ELSE "iterator"

\* make_feeding_data(input_fields, in_memory): the way it leaves, by a
\* ValueError, with the list of _small_parallel_data or with an iterator
make_feeding_data(self, in_memory) ==
    IF in_memory /\ self.fill_full_batch THEN "ValueError"
    ELSE IF in_memory /\ self.shuffle_every_epoch THEN "ValueError"
    ELSE IF in_memory THEN "list"
    ELSE "iterator"

-----------------------------------------------------------------------------
(* _BigParallelDataIterator *)

\* _reset() that forgets the labels reader
_reset_features_only(self, fresh) ==
    [self EXCEPT !.features_reader =
        ReaderReset(self.features_reader, self.shuffle_every_epoch, None, fresh).rd]

\* one call reader.reset(do_shuffle, shuffle_to_file, argsort_index) as the
\* reader sees it: who was called, with what, and what it answered
ResetCall(rd, do_shuffle, argsort_index, fresh) ==
    [reader |-> rd.side, do_shuffle |-> do_shuffle,
     argsort_index |-> argsort_index,
     returned |-> ReaderReset(rd, do_shuffle, argsort_index, fresh).perm]

\* _reset() giving the labels reader the order the features reader had
\* before this reset
_reset_stale(self, fresh) ==
    LET stale == Some(self.features_reader.order)
        f == ReaderReset(self.features_reader, self.shuffle_every_epoch, None, fresh)
        l == ReaderReset(self.labels_reader, self.shuffle_every_epoch, stale, fresh)
    IN  [reset_calls |->
            <<ResetCall(self.features_reader, self.shuffle_every_epoch, None, fresh),
              ResetCall(self.labels_reader, self.shuffle_every_epoch, stale, fresh)>>]
        @@ [self EXCEPT !.features_reader = f.rd, !.labels_reader = l.rd]

\* _reset(): the features reader first, with no permutation, then the labels
\* reader with the permutation the features reader returned; reset_calls is
\* the log of the two calls, in the order they are made
_reset(self, fresh) ==
    LET f == ReaderReset(self.features_reader, self.shuffle_every_epoch, None, fresh)
        l == ReaderReset(self.labels_reader, self.shuffle_every_epoch, f.perm, fresh)
    IN  [reset_calls |->
            <<ResetCall(self.features_reader, self.shuffle_every_epoch, None, fresh),
              ResetCall(self.labels_reader, self.shuffle_every_epoch, f.perm, fresh)>>]
        @@ [self EXCEPT !.features_reader = f.rd, !.labels_reader = l.rd]

\* __init__(input_fields, **kwargs)
BigParallelDataIterator(inputter, n_devices, fresh) ==
    LET base == [k \in DOMAIN inputter \ {"error"} |-> inputter[k]]
        self == _reset(base, fresh)
    IN  self @@ [features_buffer |-> <<>>, labels_buffer |-> <<>>,
                 features_len_buffer |-> <<>>, labels_len_buffer |-> <<>>,
                 end_of_data |-> FALSE, n_devices |-> n_devices]

\* the refill loop with the features line stored before the labels line is
\* looked at
RECURSIVE RefillLoop_unpaired(_, _)
RefillLoop_unpaired(self, cnt) ==
    IF ~(cnt < self.cache_size) THEN self
    ELSE LET ss == ReaderNext(self.features_reader)
             tt == ReaderNext(self.labels_reader)
             read == [self EXCEPT !.features_reader = ss.rd,
                                  !.labels_reader = tt.rd]
         IN  IF ss.out.tag = "end" \/ tt.out.tag = "end" THEN read
             ELSE IF ss.out.tag = "none" THEN RefillLoop_unpaired(read, cnt)
             ELSE IF tt.out.tag = "none"
             THEN RefillLoop_unpaired(
                    [read EXCEPT !.features_buffer = Append(@, ss.out.seq)], cnt)
             ELSE RefillLoop_unpaired(
                    [read EXCEPT !.features_buffer = Append(@, ss.out.seq),
                                 !.labels_buffer = Append(@, tt.out.seq)],
                    cnt + 1)

\* the refill loop going on when only one reader is at its end, the missing
\* line taken for a line of one token
RECURSIVE RefillLoop_past_end(_, _)
RefillLoop_past_end(self, cnt) ==
    IF ~(cnt < self.cache_size) THEN self
    ELSE LET ss == ReaderNext(self.features_reader)
             tt == ReaderNext(self.labels_reader)
             read == [self EXCEPT !.features_reader = ss.rd,
                                  !.labels_reader = tt.rd]
             s_seq == IF ss.out.tag = "end"
                      THEN MkSeq("features", self.features_reader.pos, 1)
                      ELSE ss.out.seq
             t_seq == IF tt.out.tag = "end"
                      THEN MkSeq("labels", self.labels_reader.pos, 1)
                      ELSE tt.out.seq
         IN  IF ss.out.tag = "end" /\ tt.out.tag = "end" THEN read
             ELSE IF ss.out.tag = "none" \/ tt.out.tag = "none"
             THEN RefillLoop_past_end(read, cnt)
             ELSE RefillLoop_past_end(
                    [read EXCEPT !.features_buffer = Append(@, s_seq),
                                 !.labels_buffer = Append(@, t_seq)],
                    cnt + 1)

\* the refill loop counting a skipped pair toward the target
RECURSIVE RefillLoop_count_skipped(_, _)
RefillLoop_count_skipped(self, cnt) ==
    IF ~(cnt < self.cache_size) THEN self
    ELSE LET ss == ReaderNext(self.features_reader)
             tt == ReaderNext(self.labels_reader)
             read == [self EXCEPT !.features_reader = ss.rd,
                                  !.labels_reader = tt.rd]
         IN  IF ss.out.tag = "end" \/ tt.out.tag = "end" THEN read
             ELSE IF ss.out.tag = "none" \/ tt.out.tag = "none"
             THEN RefillLoop_count_skipped(read, cnt + 1)
             ELSE RefillLoop_count_skipped(
                    [read EXCEPT !.features_buffer = Append(@, ss.out.seq),
                                 !.labels_buffer = Append(@, tt.out.seq)],
                    cnt + 1)

\* the refill loop without the test against the cache target
RECURSIVE RefillLoop_to_the_end(_, _)
RefillLoop_to_the_end(self, cnt) ==
    LET ss == ReaderNext(self.features_reader)
        tt == ReaderNext(self.labels_reader)
        read == [self EXCEPT !.features_reader = ss.rd,
                             !.labels_reader = tt.rd]
    IN  IF ss.out.tag = "end" \/ tt.out.tag = "end" THEN read
        ELSE IF ss.out.tag = "none" \/ tt.out.tag = "none"
        THEN RefillLoop_to_the_end(read, cnt)
        ELSE RefillLoop_to_the_end(
               [read EXCEPT !.features_buffer = Append(@, ss.out.seq),
                            !.labels_buffer = Append(@, tt.out.seq)],
               cnt + 1)

\* the refill loop reading both readers once more after the first end
\* sentinel
RECURSIVE RefillLoop_reads_on(_, _)
RefillLoop_reads_on(self, cnt) ==
    IF ~(cnt < self.cache_size) THEN self
    ELSE LET ss == ReaderNext(self.features_reader)
             tt == ReaderNext(self.labels_reader)
             read == [self EXCEPT !.features_reader = ss.rd,
                                  !.labels_reader = tt.rd]
         IN  IF ss.out.tag = "end" \/ tt.out.tag = "end"
             THEN [read EXCEPT !.features_reader = ReaderNext(@).rd,
                               !.labels_reader = ReaderNext(@).rd]
             ELSE IF ss.out.tag = "none" \/ tt.out.tag = "none"
             THEN RefillLoop_reads_on(read, cnt)
             ELSE RefillLoop_reads_on(
                    [read EXCEPT !.features_buffer = Append(@, ss.out.seq),
                                 !.labels_buffer = Append(@, tt.out.seq)],
                    cnt + 1)

\* lines 366-375, the refill loop of next(), from the count cnt
RECURSIVE RefillLoop(_, _)
RefillLoop(self, cnt) ==
    IF ~(cnt < self.cache_size) THEN self
    ELSE LET ss == ReaderNext(self.features_reader)
             tt == ReaderNext(self.labels_reader)
             read == [self EXCEPT !.features_reader = ss.rd,
                                  !.labels_reader = tt.rd]
         IN  IF ss.out.tag = "end" \/ tt.out.tag = "end" THEN read
             ELSE IF ss.out.tag = "none" \/ tt.out.tag = "none"
             THEN RefillLoop(read, cnt)
             ELSE RefillLoop(
                    [read EXCEPT !.features_buffer = Append(@, ss.out.seq),
                                 !.labels_buffer = Append(@, tt.out.seq)],
                    cnt + 1)

\* lines 380-386: bucketing by the labels and the length buffers recomputed
Rebucket(self, tidx) ==
    LET b == IF self.bucketing
             THEN do_bucketing(self.labels_buffer, self.features_buffer, tidx)
             ELSE <<self.labels_buffer, <<self.features_buffer>>>>
    IN  [self EXCEPT !.labels_buffer = b[1],
                     !.features_buffer = b[2][1],
                     !.features_len_buffer = Lens(b[2][1]),
                     !.labels_len_buffer = Lens(b[1])]

\* the growth loop without the margin test of line 398
RECURSIVE GrowBatch_no_margin(_, _, _, _)
GrowBatch_no_margin(self, local_batch_size, sum_s, sum_t) ==
    IF sum_s >= self.batch_tokens_size.val \/ sum_t >= self.batch_tokens_size.val
    THEN local_batch_size
    ELSE IF local_batch_size >= Len(self.features_len_buffer)
    THEN local_batch_size
    ELSE GrowBatch_no_margin(self, local_batch_size + 1,
                   sum_s + self.features_len_buffer[local_batch_size + 1],
                   sum_t + self.labels_len_buffer[local_batch_size + 1])

\* the growth loop with the margin test of line 398 on the features only
RECURSIVE GrowBatch_features_margin(_, _, _, _)
GrowBatch_features_margin(self, local_batch_size, sum_s, sum_t) ==
    IF sum_s >= self.batch_tokens_size.val \/ sum_t >= self.batch_tokens_size.val
    THEN local_batch_size
    ELSE IF self.batch_tokens_size.val - sum_s < TokenMargin
    THEN local_batch_size
    ELSE IF local_batch_size >= Len(self.features_len_buffer)
    THEN local_batch_size
    ELSE GrowBatch_features_margin(self, local_batch_size + 1,
                   sum_s + self.features_len_buffer[local_batch_size + 1],
                   sum_t + self.labels_len_buffer[local_batch_size + 1])

\* lines 395-404: the growth loop of the token-budget mode
RECURSIVE GrowBatch(_, _, _, _)
GrowBatch(self, local_batch_size, sum_s, sum_t) ==
    IF sum_s >= self.batch_tokens_size.val \/ sum_t >= self.batch_tokens_size.val
    THEN local_batch_size
    ELSE IF \/ self.batch_tokens_size.val - sum_s < TokenMargin
            \/ self.batch_tokens_size.val - sum_t < TokenMargin
    THEN local_batch_size
    ELSE IF local_batch_size >= Len(self.features_len_buffer)
    THEN local_batch_size
    ELSE GrowBatch(self, local_batch_size + 1,
                   sum_s + self.features_len_buffer[local_batch_size + 1],
                   sum_t + self.labels_len_buffer[local_batch_size + 1])

\* lines 391-404: local_batch_size
LocalBatchSize(self) ==
    IF ~self.batch_tokens_size.some THEN self.batch_size
    ELSE GrowBatch(self, self.batch_size,
                   Sum(Take(self.features_len_buffer, self.batch_size)),
                   Sum(Take(self.labels_len_buffer, self.batch_size)))

\* line 387 left out
FillFullShort_off(self) == FALSE

\* line 387: fill_full_batch forbids a batch shorter than batch_size
FillFullShort(self) ==
    self.fill_full_batch /\ Len(self.features_buffer) < self.batch_size

\* the flag raised for the next pull instead of lowered
StopIteration_deferred(self, fresh, via) ==
    [self |-> _reset([self EXCEPT !.end_of_data = TRUE], fresh),
     ret |-> [kind |-> "stop", via |-> via, features |-> <<>>, labels |-> <<>>]]

\* StopIteration raised without the reset
StopIteration_no_reset(self, fresh, via) ==
    [self |-> [self EXCEPT !.end_of_data = FALSE],
     ret |-> [kind |-> "stop", via |-> via, features |-> <<>>, labels |-> <<>>]]

\* self._end_of_data = False; self._reset(); raise StopIteration
StopIteration(self, fresh, via) ==
    [self |-> _reset([self EXCEPT !.end_of_data = FALSE], fresh),
     ret |-> [kind |-> "stop", via |-> via, features |-> <<>>, labels |-> <<>>]]

\* lines 421-428 with "parallels" left in the record
RetData_keep(self, features, labels) ==
    pack_feed_dict(<<"features", "labels">>, <<features, labels>>,
                   <<self.features_padding_id, self.labels_padding_id>>,
                   self.n_devices)

\* lines 421-428: the batch record returned for the cut <<features, labels>>
RetData(self, features, labels) ==
    LET data == pack_feed_dict(<<"features", "labels">>, <<features, labels>>,
                               <<self.features_padding_id, self.labels_padding_id>>,
                               self.n_devices)
    IN  IF self.fill_full_batch THEN [data EXCEPT !.parallels = None] ELSE data

\* the cut with the two length arrays left as they were
Emit_keep_lens(self, fresh) ==
    LET local_batch_size == LocalBatchSize(self)
        features == Take(self.features_buffer, local_batch_size)
        labels == Take(self.labels_buffer, local_batch_size)
        rest == IF Len(features) < local_batch_size
                THEN [self EXCEPT !.features_buffer = <<>>,
                                  !.labels_buffer = <<>>]
                ELSE [self EXCEPT
                        !.features_buffer = Drop(@, local_batch_size),
                        !.labels_buffer = Drop(@, local_batch_size)]
    IN  IF Len(features) <= 0 \/ Len(labels) <= 0
        THEN StopIteration(rest, fresh, "slice")
        ELSE [self |-> rest,
              ret |-> [kind |-> "batch", via |-> "", features |-> features,
                       labels |-> labels]]

\* lines 391-428: the batch cut off the front of the buffers
Emit(self, fresh) ==
    LET local_batch_size == LocalBatchSize(self)
        features == Take(self.features_buffer, local_batch_size)
        labels == Take(self.labels_buffer, local_batch_size)
        rest == IF Len(features) < local_batch_size
                THEN [self EXCEPT !.features_buffer = <<>>,
                                  !.labels_buffer = <<>>,
                                  !.features_len_buffer = <<>>,
                                  !.labels_len_buffer = <<>>]
                ELSE [self EXCEPT
                        !.features_buffer = Drop(@, local_batch_size),
                        !.labels_buffer = Drop(@, local_batch_size),
                        !.features_len_buffer = Drop(@, local_batch_size),
                        !.labels_len_buffer = Drop(@, local_batch_size)]
    IN  IF Len(features) <= 0 \/ Len(labels) <= 0
        THEN StopIteration(rest, fresh, "slice")
        ELSE [self |-> rest,
              ret |-> [kind |-> "batch", via |-> "", features |-> features,
                       labels |-> labels]]

\* line 364: whether this pull refills
NeedsRefill(self) == Len(self.features_buffer) < self.batch_size

\* lines 364-375: the buffers after the refill, if there is one
Refilled(self) ==
    IF NeedsRefill(self) THEN RefillLoop(self, Len(self.features_buffer)) ELSE self

\* next(): the iterator afterwards and what the caller gets; tidx is what
\* argsort returns if the pull sorts, fresh the permutation the features
\* reader draws if the pull resets with shuffling
next(self, tidx, fresh) ==
    IF self.end_of_data THEN StopIteration(self, fresh, "flag")
    ELSE IF Len(self.features_buffer) # Len(self.labels_buffer)
    THEN [self |-> self,
          ret |-> [kind |-> "AssertionError", via |-> "", features |-> <<>>,
                   labels |-> <<>>]]
    ELSE LET filled == Refilled(self)
         IN  IF /\ NeedsRefill(self)
                /\ (Len(filled.features_buffer) = 0 \/ Len(filled.labels_buffer) = 0)
             THEN StopIteration(filled, fresh, "empty")
             ELSE LET sorted == IF NeedsRefill(self) THEN Rebucket(filled, tidx)
                                ELSE filled
                  IN  IF FillFullShort(sorted)
                      THEN StopIteration(sorted, fresh, "short")
                      ELSE Emit(sorted, fresh)

\* the index arrays of an argsort of the feature lengths
TidxChoices_by_features(self) ==
    IF ~self.end_of_data /\ NeedsRefill(self) /\ self.bucketing
    THEN argsort(Lens(Refilled(self).features_buffer))
    ELSE {<<>>}

\* the index arrays argsort may return in this pull
TidxChoices(self) ==
    IF ~self.end_of_data /\ NeedsRefill(self) /\ self.bucketing
    THEN argsort(Lens(Refilled(self).labels_buffer))
    ELSE {<<>>}

\* the permutations the features reader may draw in the reset of this pull
FreshChoices(self, tidx) ==
    IF self.shuffle_every_epoch /\ next(self, tidx, <<>>).ret.kind = "stop"
    THEN Shuffles(Len(self.features_reader.lens))
    ELSE {<<>>}

-----------------------------------------------------------------------------
(* The streaming runs: an iterator is made over two corpora and pulled. *)

\* a line of the two corpora: the features length and the labels length,
\* 0 for a malformed line
LineKinds == {<<1, 1>>, <<2, 1>>, <<1, 2>>, <<0, 1>>, <<1, 0>>}

\* the two corpora, as <<features lengths, labels lengths>>: aligned lines,
\* and possibly one corpus a line shorter than the other
Corpora ==
    UNION {
      UNION {
        { <<[i \in 1..n |-> ls[i][1]], [i \in 1..n |-> ls[i][2]]>> } \cup
        (IF n = 0 THEN {}
         ELSE { <<[i \in 1..(n - 1) |-> ls[i][1]], [i \in 1..n |-> ls[i][2]]>>,
                <<[i \in 1..n |-> ls[i][1]], [i \in 1..(n - 1) |-> ls[i][2]]>> })
        : ls \in [1..n -> LineKinds] }
      : n \in 0..MaxLines }

BatchSizes == {Some(b) : b \in 1..MaxBatch}

TokenBudgets == {None, Some(TokenMargin + 2)}

NoRet == [kind |-> "init", via |-> "", features |-> <<>>, labels |-> <<>>]

\* ret_data of the last pull, when it returned a batch: the state keeps the
\* cut (ret.features, ret.labels), of which the record is a function
ReturnedData == RetData(it, ret.features, ret.labels)

IdleLine == [phase |-> "idle"]

IdlePack == [phase |-> "idle"]

IdleCall == [phase |-> "idle"]

IdleConn == [phase |-> "idle"]

\* make_feeding_data(input_fields, in_memory=False) of an inputter built
\* over readers of the two corpora
Init ==
    \* shuffling is followed over corpora of equal length, which one
    \* permutation fits; input_fields has MaxDevices slots
    /\ \E c \in Corpora, bs \in BatchSizes, bt \in TokenBudgets,
          shuffle \in BOOLEAN, fill \in BOOLEAN, bucketing \in BOOLEAN :
          LET inputter == ParallelTextInputter(
                  [features_reader |-> NewReader("features", c[1]),
                   labels_reader |-> NewReader("labels", c[2]),
                   features_padding_id |-> 0, labels_padding_id |-> 0,
                   batch_size |-> bs, batch_tokens_size |-> bt,
                   shuffle_every_epoch |-> shuffle,
                   fill_full_batch |-> fill, bucketing |-> bucketing])
          IN  /\ inputter.error = ""
              /\ shuffle => Len(c[1]) = Len(c[2])
              /\ \E fresh \in (IF shuffle THEN Shuffles(Len(c[1])) ELSE {<<>>}) :
                    it = BigParallelDataIterator(inputter, MaxDevices, fresh)
    /\ ret = NoRet
    /\ stops = 0
    /\ emitted = <<>>
    /\ epoch_log = <<>>
    /\ line = IdleLine
    /\ pack = IdlePack
    /\ call = IdleCall
    /\ conn = IdleConn

\* one call of next() by the consumer
Pull ==
    /\ stops < MaxEpochs
    /\ \E tidx \in TidxChoices(it) :
       \E fresh \in FreshChoices(it, tidx) :
          LET r == next(it, tidx, fresh)
          IN  /\ it' = r.self
              /\ ret' = r.ret
              /\ stops' = IF r.ret.kind = "stop" THEN stops + 1 ELSE stops
              /\ emitted' = IF r.ret.kind = "stop" THEN <<>>
                            ELSE emitted \o [i \in 1..Len(r.ret.features) |->
                                               Src(r.ret.features[i])]
              /\ epoch_log' = IF r.ret.kind = "stop"
                              THEN Append(epoch_log, Len(emitted))
                              ELSE epoch_log
    /\ UNCHANGED <<line, pack, call, conn>>

Next == Pull

Spec == Init /\ [][Next]_vars

-----------------------------------------------------------------------------
(* The unending runs: the consumer pulls for ever.  The counters the       *)
(* readers keep of their calls and resets are not followed, the            *)
(* end-of-epoch signals are counted up to MaxEpochs only, and call.phase   *)
(* alternates with every pull, so that every pull is a step.  A pull can   *)
(* always be made, and the consumer's loop makes one again and again:      *)
(* weak fairness of the call, which every pull is and which is always      *)
(* enabled.                                                                *)

\* the iterator with the readers' counters set back
Uncounted(self) ==
    [self EXCEPT !.features_reader.resets = 0, !.features_reader.calls = 0,
                 !.labels_reader.resets = 0, !.labels_reader.calls = 0]

\* the consumer has called next() once more
Called == call' = [phase |-> IF call.phase = "idle" THEN "pulled" ELSE "idle"]

\* one call of next() by a consumer that never stops calling
PullForever ==
    /\ \E tidx \in TidxChoices(it) :
       \E fresh \in FreshChoices(it, tidx) :
          LET r == next(it, tidx, fresh)
          IN  /\ it' = Uncounted(r.self)
              /\ ret' = r.ret
              /\ stops' = IF r.ret.kind = "stop" THEN Min(stops + 1, MaxEpochs)
                          ELSE stops
    /\ Called
    /\ UNCHANGED <<emitted, epoch_log, line, pack, conn>>

NextLive == PullForever

SpecLive == Init /\ [][NextLive]_vars /\ WF_call(Called)

-----------------------------------------------------------------------------
(* The runs that reach the cache target: batch_tokens_size 1, so that the  *)
(* cache target is TokenCacheFactor pairs and a batch is batch_size pairs, *)
(* over corpora of two lines more than the target, up to two of them       *)
(* malformed on one side, the labels corpus possibly a line shorter.  The  *)
(* features have one token; the label of line i has as many tokens as      *)
(* there are lines from i on, so that bucketing turns the cache around.    *)

CacheLines == TokenCacheFactor + 2

\* the lines that are malformed, on the features side and on the labels side
Malformed ==
    {m \in (SUBSET (1..CacheLines)) \X (SUBSET (1..CacheLines)) :
        /\ m[1] \cap m[2] = {}
        /\ Cardinality(m[1] \cup m[2]) <= 2}

CacheCorpora ==
    UNION {{<<[i \in 1..CacheLines |-> IF i \in m[1] THEN 0 ELSE 1],
              [i \in 1..(CacheLines - short) |->
                  IF i \in m[2] THEN 0 ELSE CacheLines + 1 - i]>>
            : short \in {0, 1}}
           : m \in Malformed}

InitCache ==
    /\ \E c \in CacheCorpora, bs \in BatchSizes, bucketing \in BOOLEAN :
          it = BigParallelDataIterator(
                 ParallelTextInputter(
                   [features_reader |-> NewReader("features", c[1]),
                    labels_reader |-> NewReader("labels", c[2]),
                    features_padding_id |-> 0, labels_padding_id |-> 0,
                    batch_size |-> bs, batch_tokens_size |-> Some(1),
                    shuffle_every_epoch |-> FALSE,
                    fill_full_batch |-> FALSE, bucketing |-> bucketing]),
                 MaxDevices, <<>>)
    /\ ret = NoRet
    /\ stops = 0
    /\ emitted = <<>>
    /\ epoch_log = <<>>
    /\ line = IdleLine
    /\ pack = IdlePack
    /\ call = IdleCall
    /\ conn = IdleConn

\* the streaming runs and the runs that reach the cache target
InitCov == Init \/ InitCache

SpecCov == InitCov /\ [][Next]_vars

-----------------------------------------------------------------------------
(* The runs that refill a cache with pairs left in it: a cache target of    *)
(* TokenCacheFactor pairs over corpora of one line more, so that with       *)
(* fill_full_batch and a batch_size of 2 the last pair is left in the cache *)
(* when the epoch ends and the next refill adds to it.  The label lengths   *)
(* are the numbers 1..RotLines rotated, so the pair left over is anywhere   *)
(* in the order of lengths; a feature is the longer the shorter its label.  *)

RotLines == TokenCacheFactor + 1

\* the label length of line i in the corpus rotated by r
RotLen(i, r) == ((i + r) % RotLines) + 1

RotCorpora ==
    {<<[i \in 1..RotLines |-> RotLines + 1 - RotLen(i, r)],
       [i \in 1..RotLines |-> RotLen(i, r)]>> : r \in 0..(RotLines - 1)}

InitRot ==
    /\ \E c \in RotCorpora, bs \in BatchSizes, fill \in BOOLEAN,
          bucketing \in BOOLEAN :
          it = BigParallelDataIterator(
                 ParallelTextInputter(
                   [features_reader |-> NewReader("features", c[1]),
                    labels_reader |-> NewReader("labels", c[2]),
                    features_padding_id |-> 0, labels_padding_id |-> 0,
                    batch_size |-> bs, batch_tokens_size |-> Some(1),
                    shuffle_every_epoch |-> FALSE,
                    fill_full_batch |-> fill, bucketing |-> bucketing]),
                 MaxDevices, <<>>)
    /\ ret = NoRet
    /\ stops = 0
    /\ emitted = <<>>
    /\ epoch_log = <<>>
    /\ line = IdleLine
    /\ pack = IdlePack
    /\ call = IdleCall
    /\ conn = IdleConn

SpecRot == InitRot /\ [][Next]_vars

-----------------------------------------------------------------------------
(* The scripted token-budget runs: batch_tokens_size 100 over corpora of    *)
(* eleven lines of 10 tokens, up to two of them of 90 tokens instead, the   *)
(* same on both sides, read in order.                                       *)

ScriptLens == <<10, 10, 10, 10, 10, 10, 10, 10, 10, 10, 90>>

ScriptBudget == Sum(Take(ScriptLens, 1)) + Sum(Drop(ScriptLens, Len(ScriptLens) - 1))

ScriptCorpora ==
    {c \in [1..Len(ScriptLens) -> {ScriptLens[i] : i \in 1..Len(ScriptLens)}] :
        Cardinality({i \in 1..Len(c) : c[i] = ScriptLens[Len(ScriptLens)]}) <= 2}

InitTok ==
    /\ \E c \in ScriptCorpora, bs \in BatchSizes :
          it = BigParallelDataIterator(
                 ParallelTextInputter(
                   [features_reader |-> NewReader("features", c),
                    labels_reader |-> NewReader("labels", c),
                    features_padding_id |-> 0, labels_padding_id |-> 0,
                    batch_size |-> bs, batch_tokens_size |-> Some(ScriptBudget),
                    shuffle_every_epoch |-> FALSE,
                    fill_full_batch |-> FALSE, bucketing |-> FALSE]),
                 MaxDevices, <<>>)
    /\ ret = NoRet
    /\ stops = 0
    /\ emitted = <<>>
    /\ epoch_log = <<>>
    /\ line = IdleLine
    /\ pack = IdlePack
    /\ call = IdleCall
    /\ conn = IdleConn

SpecTok == InitTok /\ [][Next]_vars

-----------------------------------------------------------------------------
(* The two-sided token-budget runs: a batch_tokens_size of BudgetTokens     *)
(* over corpora of BudgetLines lines whose feature and label take their     *)
(* lengths, independently, from BudgetLens: one token, half of what the     *)
(* margin leaves of the budget, and the budget less that half; read in      *)
(* order.                                                                   *)

BudgetLines == MaxLines + 1

BudgetTokens == TokenMargin + 10

BudgetLens == {1, (BudgetTokens - TokenMargin) \div 2,
               BudgetTokens - ((BudgetTokens - TokenMargin) \div 2)}

BudgetCorpora == [1..BudgetLines -> BudgetLens] \X [1..BudgetLines -> BudgetLens]

InitBudget ==
    /\ \E c \in BudgetCorpora, bs \in BatchSizes :
          it = BigParallelDataIterator(
                 ParallelTextInputter(
                   [features_reader |-> NewReader("features", c[1]),
                    labels_reader |-> NewReader("labels", c[2]),
                    features_padding_id |-> 0, labels_padding_id |-> 0,
                    batch_size |-> bs, batch_tokens_size |-> Some(BudgetTokens),
                    shuffle_every_epoch |-> FALSE,
                    fill_full_batch |-> FALSE, bucketing |-> FALSE]),
                 MaxDevices, <<>>)
    /\ ret = NoRet
    /\ stops = 0
    /\ emitted = <<>>
    /\ epoch_log = <<>>
    /\ line = IdleLine
    /\ pack = IdlePack
    /\ call = IdleCall
    /\ conn = IdleConn

SpecBudget == InitBudget /\ [][Next]_vars

-----------------------------------------------------------------------------
(* The single-corpus runs: a TextLineInputter makes its feeding data. *)

IdleIt == [phase |-> "idle"]

\* the corpora of the single-corpus runs: a length per line, 0 if malformed
LineCorpora == UNION {[1..n -> 0..2] : n \in 0..(MaxLines + 2)}

InitLine ==
    /\ \E c \in LineCorpora, bs \in BatchSizes, n_devices \in 1..MaxDevices :
          line = [phase |-> "new",
                  self |-> TextLineInputter(NewReader("features", c), 0, bs),
                  n_devices |-> n_devices,
                  reader |-> NewReader("features", c),
                  data |-> <<>>]
    /\ it = IdleIt
    /\ ret = NoRet
    /\ stops = 0
    /\ emitted = <<>>
    /\ epoch_log = <<>>
    /\ pack = IdlePack
    /\ call = IdleCall
    /\ conn = IdleConn

\* make_feeding_data(input_fields) with a single reader
MakeFeedingData ==
    /\ line.phase = "new"
    /\ LET r == _make_feeding_data_from(line.self, line.self.readers, line.n_devices)
       IN  line' = [line EXCEPT !.phase = "made", !.reader = r.reader,
                                !.data = r.data]
    /\ UNCHANGED <<it, ret, stops, emitted, epoch_log, pack, call, conn>>

NextLine == MakeFeedingData

SpecLine == InitLine /\ [][NextLine]_vars

-----------------------------------------------------------------------------
(* The assembler runs: pack_feed_dict is called on one batch. *)

\* a batch of B sequences, the one at position j made of the token j
PackBatches ==
    UNION {{[j \in 1..B |-> MkSeq("features", j, l[j])] : l \in [1..B -> 1..2]}
           : B \in 1..(MaxLines + 3)}

InitPack ==
    /\ \E d \in PackBatches, n_devices \in 1..(MaxDevices + 2) :
          pack = [phase |-> "args", d |-> d, p |-> 0, n_devices |-> n_devices,
                  data |-> None]
    /\ it = IdleIt
    /\ ret = NoRet
    /\ stops = 0
    /\ emitted = <<>>
    /\ epoch_log = <<>>
    /\ line = IdleLine
    /\ call = IdleCall
    /\ conn = IdleConn

\* pack_feed_dict(name_prefix, d, p, input_fields) with a single prefix
PackFeedDict ==
    /\ pack.phase = "args"
    /\ pack' = [pack EXCEPT
                  !.phase = "done",
                  !.data = Some(pack_feed_dict(<<"features">>, <<pack.d>>,
                                               <<pack.p>>, pack.n_devices))]
    /\ UNCHANGED <<it, ret, stops, emitted, epoch_log, line, call, conn>>

NextPack == PackFeedDict

SpecPack == InitPack /\ [][NextPack]_vars

-----------------------------------------------------------------------------
(* The two-component assembler runs: pack_feed_dict is called on a batch of *)
(* features and a batch of labels, each with its own padding id.            *)

\* the padding ids of the two components
PairPaddings == <<0, 9>>

\* B features and B labels, the pair at position j made of the tokens j and -j
PairBatches ==
    UNION {{<<[j \in 1..B |-> MkSeq("features", j, fl[j])],
              [j \in 1..B |-> MkSeq("labels", j, ll[j])]>>
            : fl \in [1..B -> 1..2], ll \in [1..B -> 1..2]}
           : B \in 1..(MaxLines + 1)}

InitPair ==
    /\ \E d \in PairBatches, n_devices \in 1..(MaxDevices + 1) :
          pack = [phase |-> "pair", d |-> d, p |-> PairPaddings,
                  n_devices |-> n_devices, data |-> None]
    /\ it = IdleIt
    /\ ret = NoRet
    /\ stops = 0
    /\ emitted = <<>>
    /\ epoch_log = <<>>
    /\ line = IdleLine
    /\ call = IdleCall
    /\ conn = IdleConn

\* pack_feed_dict(name_prefixs, origin_datas, paddings, input_fields) with
\* the lists of two
PackFeedDictPair ==
    /\ pack.phase = "pair"
    /\ pack' = [pack EXCEPT
                  !.phase = "packed",
                  !.data = Some(pack_feed_dict(<<"features", "labels">>, pack.d,
                                               pack.p, pack.n_devices))]
    /\ UNCHANGED <<it, ret, stops, emitted, epoch_log, line, call, conn>>

NextPair == PackFeedDictPair

SpecPair == InitPair /\ [][NextPair]_vars

-----------------------------------------------------------------------------
(* The bucketing runs: do_bucketing is called on a primary list and on     *)
(* none, one or two other lists of the same length.                        *)

\* the primary lists: the element at position j made of the token j
Pivots ==
    UNION {{[j \in 1..n |-> MkSeq("features", j, l[j])] : l \in [1..n -> 1..3]}
           : n \in 0..(MaxLines + 1)}

\* k other lists of n elements, the element at position j of list m made of
\* the token -j, m times
Others(n, k) == [m \in 1..k |-> [j \in 1..n |-> MkSeq("labels", j, m)]]

InitBucket ==
    /\ \E pivot \in Pivots, k \in 0..2 :
          call = [phase |-> "bucket",
                  given |-> <<pivot, Others(Len(pivot), k)>>,
                  pivot |-> pivot, args |-> Others(Len(pivot), k),
                  result |-> <<>>]
    /\ it = IdleIt
    /\ ret = NoRet
    /\ stops = 0
    /\ emitted = <<>>
    /\ epoch_log = <<>>
    /\ line = IdleLine
    /\ pack = IdlePack
    /\ conn = IdleConn

\* do_bucketing(pivot, *args): builds new lists, the caller's are not written
DoBucketing ==
    /\ call.phase = "bucket"
    /\ \E tidx \in argsort(Lens(call.pivot)) :
          call' = [call EXCEPT
                     !.phase = "bucketed",
                     !.result = do_bucketing_args(call.pivot, call.args, tidx)]
    /\ UNCHANGED <<it, ret, stops, emitted, epoch_log, line, pack, conn>>

NextBucket == DoBucketing

SpecBucket == InitBucket /\ [][NextBucket]_vars

-----------------------------------------------------------------------------
(* The runs through the public entry points: a pair inputter is constructed *)
(* and asked for its feeding data, in memory or as an iterator that is then *)
(* pulled; or a TextLineInputter makes its feeding data.                    *)

\* the corpora of these runs: lines well-formed on both sides
FacadeCorpora ==
    {c \in Corpora :
        /\ Len(c[1]) = Len(c[2])
        /\ \A i \in 1..Len(c[1]) : c[1][i] # 0 /\ c[2][i] # 0}

OptBatchSizes == {None} \cup BatchSizes

InitFacade ==
    \* an iterator with the batch size of 32, fill_full_batch and bucketing
    \* is left out: over these corpora it never has a full batch, and only
    \* sorts a cache that grows with every epoch
    /\ \E c \in FacadeCorpora, bs \in OptBatchSizes, bt \in TokenBudgets,
          shuffle \in BOOLEAN, fill \in BOOLEAN, bucketing \in BOOLEAN,
          in_memory \in BOOLEAN :
          /\ ~(bs = None /\ fill /\ bucketing /\ ~in_memory)
          /\ call = [phase |-> "args",
                     a |-> [features_reader |-> NewReader("features", c[1]),
                            labels_reader |-> NewReader("labels", c[2]),
                            features_padding_id |-> 0, labels_padding_id |-> 0,
                            batch_size |-> bs, batch_tokens_size |-> bt,
                            shuffle_every_epoch |-> shuffle,
                            fill_full_batch |-> fill, bucketing |-> bucketing],
                     in_memory |-> in_memory,
                     n_devices |-> MaxDevices,
                     self |-> [error |-> "unset"],
                     data |-> <<>>]
    /\ it = IdleIt
    /\ ret = NoRet
    /\ stops = 0
    /\ emitted = <<>>
    /\ epoch_log = <<>>
    /\ line = IdleLine
    /\ pack = IdlePack
    /\ conn = IdleConn

\* ParallelTextInputter(**a)
Construct ==
    /\ call.phase = "args"
    /\ LET self == ParallelTextInputter(call.a)
       IN  call' = [call EXCEPT
                      !.phase = IF self.error = "" THEN "built" ELSE "rejected",
                      !.self = self]
    /\ UNCHANGED <<it, ret, stops, emitted, epoch_log, line, pack, conn>>

\* inputter.make_feeding_data(input_fields, in_memory); the readers of an
\* iterator are followed in `it`
MakeFeedingDataPair ==
    /\ call.phase = "built"
    /\ LET way == make_feeding_data(call.self, call.in_memory)
       IN  IF way = "ValueError"
           THEN /\ call' = [call EXCEPT !.phase = "ValueError"]
                /\ it' = it
           ELSE IF way = "list"
           THEN /\ \E tidx \in SmallTidxChoices(call.self) :
                      LET r == _small_parallel_data(call.self, call.n_devices, tidx)
                      IN  call' = [call EXCEPT !.phase = "list",
                                               !.self = r.self,
                                               !.data = r.data]
                /\ it' = it
           ELSE /\ \E fresh \in (IF call.self.shuffle_every_epoch
                                  THEN Shuffles(Len(call.self.features_reader.lens))
                                  ELSE {<<>>}) :
                      it' = BigParallelDataIterator(call.self, call.n_devices, fresh)
                /\ call' = [call EXCEPT !.phase = "iterator"]
    /\ UNCHANGED <<ret, stops, emitted, epoch_log, line, pack, conn>>

\* one call of next() on the iterator make_feeding_data returned
PullIterator ==
    /\ call.phase = "iterator"
    /\ Pull

InitEntry == InitFacade \/ InitLine

NextEntry == Construct \/ MakeFeedingDataPair \/ PullIterator \/ MakeFeedingData

SpecEntry == InitEntry /\ [][NextEntry]_vars

-----------------------------------------------------------------------------
(* The in-memory runs: make_feeding_data(input_fields, in_memory=True) of  *)
(* a pair inputter without fill_full_batch and shuffle_every_epoch.         *)

\* the two corpora of these runs, of up to MaxLines + 1 lines
MemCorpora ==
    UNION {
      UNION {
        { <<[i \in 1..n |-> ls[i][1]], [i \in 1..n |-> ls[i][2]]>> } \cup
        (IF n = 0 THEN {}
         ELSE { <<[i \in 1..(n - 1) |-> ls[i][1]], [i \in 1..n |-> ls[i][2]]>>,
                <<[i \in 1..n |-> ls[i][1]], [i \in 1..(n - 1) |-> ls[i][2]]>> })
        : ls \in [1..n -> LineKinds] }
      : n \in 0..(MaxLines + 1) }

InitMem ==
    /\ \E c \in MemCorpora, bs \in BatchSizes, bt \in TokenBudgets,
          bucketing \in BOOLEAN :
          LET a == [features_reader |-> NewReader("features", c[1]),
                    labels_reader |-> NewReader("labels", c[2]),
                    features_padding_id |-> 0, labels_padding_id |-> 0,
                    batch_size |-> bs, batch_tokens_size |-> bt,
                    shuffle_every_epoch |-> FALSE,
                    fill_full_batch |-> FALSE, bucketing |-> bucketing]
          IN  call = [phase |-> "built", a |-> a, in_memory |-> TRUE,
                      n_devices |-> MaxDevices,
                      self |-> ParallelTextInputter(a), data |-> <<>>]
    /\ it = IdleIt
    /\ ret = NoRet
    /\ stops = 0
    /\ emitted = <<>>
    /\ epoch_log = <<>>
    /\ line = IdleLine
    /\ pack = IdlePack
    /\ conn = IdleConn

NextMem == MakeFeedingDataPair

SpecMem == InitMem /\ [][NextMem]_vars

-----------------------------------------------------------------------------
(* The connection handler of bin/translate_server.py:                      *)
(* TranslateRequestHandler.handle serves one connection, one message per   *)
(* turn of its loop.  A message is given by whether it decodes as JSON and *)
(* by its "command" and "content", "missing" for a key it does not have.   *)
(* A response carries the number of the message in whose turn it was       *)
(* built.  Each turn the connection either takes what is sent (up) or      *)
(* raises socket.error on every sendall.                                   *)

MaxMessages == 3    \* messages received on one connection

RawMessages ==
    {[decodes |-> FALSE, command |-> "missing", content |-> "missing"]} \cup
    {m \in [decodes : {TRUE},
            command : {"translate", "control", "reload", "hello", "missing"},
            content : {"text", "close", "ping", "missing"}] :
        \/ m.command = "translate" /\ m.content \in {"text", "missing"}
        \/ m.command = "control" /\ m.content \in {"close", "ping", "missing"}
        \/ m.command = "reload" /\ m.content \in {"text", "missing"}
        \/ m.command \in {"hello", "missing"} /\ m.content = "text"}

\* the local `response` before its first assignment
Unbound == [status |-> "unbound", info |-> "", of |-> 0]

\* wrap_message(status=..., info=..., ...), built in turn n
wrap_message(status, info, n) == [status |-> status, info |-> info, of |-> n]

\* unwrap_message(json_str)
unwrap_message(json_str) ==
    IF json_str.decodes
    THEN [command |-> json_str.command, content |-> json_str.content]
    ELSE [command |-> "control", content |-> "error"]

\* preprocess_raw(raw_data): the request, or the KeyError of a missing key
preprocess_raw(raw_data) ==
    LET msg == unwrap_message(raw_data)
    IN  IF msg.command = "missing" THEN [raised |-> TRUE, request |-> msg]
        ELSE IF msg.command = "translate"
        THEN IF msg.content = "missing" THEN [raised |-> TRUE, request |-> msg]
             ELSE [raised |-> FALSE,
                   request |-> [command |-> "translate", content |-> "feeding_data"]]
        ELSE [raised |-> FALSE, request |-> msg]

\* lines 187-222 in turn n: whether the turn raises, breaks or goes on to
\* line 224, and the `response` it has then
Branches(self, raw_data, n) ==
    LET pre == preprocess_raw(raw_data)
        request == pre.request
    IN  IF pre.raised THEN [to |-> "except", response |-> self.response]
        ELSE IF request.command = "translate"
        THEN [to |-> "sendall", response |-> wrap_message("success", "", n)]
        ELSE IF request.command = "control"
        THEN IF request.content = "missing"
             THEN [to |-> "except", response |-> self.response]
             ELSE IF request.content = "close"
             THEN [to |-> "break", response |-> self.response]
             ELSE [to |-> "sendall", response |-> self.response]
        ELSE IF request.command = "reload"
        THEN IF request.content = "missing"
             THEN [to |-> "except", response |-> self.response]
             ELSE [to |-> "sendall",
                   response |-> wrap_message("success", "Reloaded model", n)]
        ELSE [to |-> "sendall", response |-> self.response]

\* one turn of the loop of handle(), lines 182-232: the handler afterwards
handle(self, raw_data, up) ==
    LET n == Len(self.inbox) + 1
        got == [self EXCEPT !.inbox = Append(@, raw_data)]
        b == Branches(self, raw_data, n)
        error == wrap_message("error", "", n)
    IN  IF b.to = "break" THEN [got EXCEPT !.phase = "closed", !.via = "close"]
        ELSE IF b.to = "sendall" /\ b.response # Unbound /\ up
        THEN [got EXCEPT !.response = b.response,
                         !.sent = Append(@, [at |-> n, response |-> b.response])]
        ELSE IF up
        THEN [got EXCEPT !.response = error,
                         !.sent = Append(@, [at |-> n, response |-> error])]
        ELSE [got EXCEPT !.response = error,
                         !.phase = "closed", !.via = "socket.error"]

InitServe ==
    /\ conn = [phase |-> "serving", via |-> "", response |-> Unbound,
               inbox |-> <<>>, sent |-> <<>>]
    /\ it = IdleIt
    /\ ret = NoRet
    /\ stops = 0
    /\ emitted = <<>>
    /\ epoch_log = <<>>
    /\ line = IdleLine
    /\ pack = IdlePack
    /\ call = IdleCall

\* a message arrives and the loop takes one turn
Handle ==
    /\ conn.phase = "serving"
    /\ Len(conn.inbox) < MaxMessages
    /\ \E raw_data \in RawMessages, up \in BOOLEAN :
          conn' = handle(conn, raw_data, up)
    /\ UNCHANGED <<it, ret, stops, emitted, epoch_log, line, pack, call>>

NextServe == Handle

SpecServe == InitServe /\ [][NextServe]_vars

-----------------------------------------------------------------------------
(* Properties of the streaming runs. *)

MalformedLine ==
    \/ \E i \in 1..Len(it.features_reader.lens) : it.features_reader.lens[i] = 0
    \/ \E i \in 1..Len(it.labels_reader.lens) : it.labels_reader.lens[i] = 0

UnequalCorpora == Len(it.features_reader.lens) # Len(it.labels_reader.lens)

\* the number of lines at which both corpora hold a sequence
WellFormedPairs ==
    Cardinality({i \in 1..Min(Len(it.features_reader.lens),
                              Len(it.labels_reader.lens)) :
                    it.features_reader.lens[i] # 0 /\ it.labels_reader.lens[i] # 0})

\* C1: every batch has as many features as labels, and at every position
\* the feature was read from the features corpus and the label from the
\* same line of the labels corpus.
C1_Pairing ==
    ret.kind = "batch" =>
        /\ Len(ret.features) = Len(ret.labels)
        /\ \A i \in 1..Len(ret.features) :
              /\ ret.features[i][1] > 0
              /\ ret.labels[i][1] = 0 - ret.features[i][1]

\* a batch of a later epoch, shuffled and bucketed, whose pairs are not in
\* source order
C1_Witness ==
    /\ ret.kind = "batch"
    /\ it.shuffle_every_epoch /\ it.bucketing /\ stops >= 1
    /\ Len(ret.features) >= 2
    /\ Src(ret.features[1]) > Src(ret.features[2])

\* C2: with fill_full_batch a batch has at least batch_size pairs, and
\* exactly batch_size when batching by count.
C2_FullBatches ==
    (ret.kind = "batch" /\ it.fill_full_batch) =>
        /\ Len(ret.features) >= it.batch_size
        /\ ~it.batch_tokens_size.some => Len(ret.features) = it.batch_size

\* a full batch of two, in an epoch that follows one ended for want of a
\* full batch
C2_Witness ==
    /\ ret.kind = "batch" /\ it.fill_full_batch
    /\ it.batch_size = 2 /\ Len(ret.features) = 2
    /\ stops >= 1

\* C3: with fill_full_batch and no shuffling, over a corpus whose number
\* of well-formed pairs is not a multiple of batch_size, every epoch emits
\* the same number of pairs, and what an epoch leaves behind is not emitted
\* later: no epoch emits a source line twice.
C3_RemainderDiscarded ==
    (/\ it.fill_full_batch /\ ~it.shuffle_every_epoch
     /\ WellFormedPairs % it.batch_size # 0) =>
        /\ \A e \in 1..Len(epoch_log) : epoch_log[e] = epoch_log[1]
        /\ \A i, j \in 1..Len(emitted) : emitted[i] = emitted[j] => i = j

\* C4: when a pull has signalled end-of-epoch the cache is empty.
C4_CacheEmptyAtEpochEnd ==
    ret.kind = "stop" => it.features_buffer = <<>> /\ it.labels_buffer = <<>>

\* C5: each reader has been reset once at construction and once by every
\* pull that signalled end-of-epoch, and by no other pull.
C5_ResetOncePerEpoch ==
    /\ it.features_reader.resets = stops + 1
    /\ it.labels_reader.resets = stops + 1

\* the last followed epoch has ended, after batches
C5_Witness ==
    /\ stops = MaxEpochs /\ ret.kind = "stop"
    /\ epoch_log[stops] > 0

\* C6 as stated: end-of-epoch is signalled by the pull that finds the
\* end_of_data flag set by the pull before it.
C6_SignalledByFlag ==
    ret.kind = "stop" => ret.via = "flag"

\* C6 amended: the flag is never left set; the pull in which the refill
\* leaves the cache empty, or fill_full_batch forbids the short batch, is the
\* one that signals end-of-epoch, with both readers reset, once per signal.
C6_SignalledAtOnce ==
    /\ it.end_of_data = FALSE
    /\ ret.kind = "stop" =>
          /\ ret.via \in {"empty", "short"}
          /\ it.features_reader.pos = 1 /\ it.labels_reader.pos = 1
          /\ it.features_reader.resets = stops + 1
          /\ it.labels_reader.resets = stops + 1

\* an epoch ended for want of a full batch, the next by an empty refill
C6_Witness ==
    /\ ret.kind = "stop" /\ ret.via = "empty" /\ it.fill_full_batch
    /\ stops = 2 /\ epoch_log[1] = 0 /\ epoch_log[2] > 0

\* C7: between pulls the two caches have the same length, and the
\* assertion at the start of a pull has not failed.
C7_BuffersSameLength ==
    /\ Len(it.features_buffer) = Len(it.labels_buffer)
    /\ ret.kind # "AssertionError"

\* a batch out of corpora of different lengths with a malformed line
C7_Witness ==
    /\ ret.kind = "batch"
    /\ UnequalCorpora /\ MalformedLine

\* the number of lines of the shorter corpus
ShorterLen == Min(Len(it.features_reader.lens), Len(it.labels_reader.lens))

\* every sequence of the list was read from a line the shorter corpus has
WithinShorter(seqs) ==
    \A i \in 1..Len(seqs) : Len(seqs[i]) > 0 /\ Src(seqs[i]) <= ShorterLen

\* C14: over corpora of different lengths no pull fails; what is emitted
\* and what is cached was read from lines the shorter corpus has, on both
\* sides, in every epoch; neither reader is read further than one line past
\* the end of the shorter corpus.
C14_SilentTruncation ==
    UnequalCorpora =>
        /\ ret.kind \in {"init", "batch", "stop"}
        /\ WithinShorter(ret.features) /\ WithinShorter(ret.labels)
        /\ WithinShorter(it.features_buffer) /\ WithinShorter(it.labels_buffer)
        /\ \A i \in 1..Len(emitted) : emitted[i] <= ShorterLen
        /\ it.features_reader.pos <= ShorterLen + 2
        /\ it.labels_reader.pos <= ShorterLen + 2

\* a second epoch has ended after batches, over corpora of which the longer
\* has a well-formed line the shorter has not
C14_Witness ==
    /\ UnequalCorpora
    /\ ret.kind = "stop" /\ stops = 2
    /\ epoch_log[1] > 0 /\ epoch_log[2] > 0
    /\ \/ /\ Len(it.features_reader.lens) > ShorterLen
          /\ it.features_reader.lens[ShorterLen + 1] # 0
       \/ /\ Len(it.labels_reader.lens) > ShorterLen
          /\ it.labels_reader.lens[ShorterLen + 1] # 0

\* the lines both corpora have, with a sequence on both sides
PairLines ==
    {i \in 1..ShorterLen :
        it.features_reader.lens[i] # 0 /\ it.labels_reader.lens[i] # 0}

\* C20: without fill_full_batch, what an epoch emits are lines both
\* corpora have with a sequence on both sides, none of them twice, and at
\* the end-of-epoch signal all of them; the first refill caches as many
\* pairs as the cache target asks for, or all there are, whatever was
\* skipped on the way.
C20_EpochCoverage ==
    ~it.fill_full_batch =>
        /\ \A i \in 1..Len(emitted) : emitted[i] \in PairLines
        /\ \A i, j \in 1..Len(emitted) : emitted[i] = emitted[j] => i = j
        /\ ret.kind = "stop" => epoch_log[stops] = Cardinality(PairLines)
        /\ (ret.kind = "batch" /\ stops = 0 /\ Len(emitted) = Len(ret.features)) =>
              Len(ret.features) + Len(it.features_buffer)
                  = Min(it.cache_size, Cardinality(PairLines))

\* the first batch of an epoch cut from a cache filled to its target past
\* a malformed line, bucketed out of source order
C20_Witness ==
    /\ ~it.fill_full_batch /\ it.bucketing
    /\ ret.kind = "batch" /\ stops = 1 /\ Len(emitted) = Len(ret.features)
    /\ Len(ret.features) + Len(it.features_buffer) = it.cache_size
    /\ Cardinality(PairLines) > it.cache_size
    /\ \E i \in 1..it.cache_size :
          it.features_reader.lens[i] = 0 \/ it.labels_reader.lens[i] = 0
    /\ Src(ret.features[1]) > 1

-----------------------------------------------------------------------------
(* Properties of the token-budget growth. *)

\* the cache the last batch was cut from: its feature and label lengths
CutFromF == Lens(ret.features \o it.features_buffer)

CutFromL == Lens(ret.labels \o it.labels_buffer)

\* whether the growth rule stops at k pairs
StopsAt(k) ==
    LET b == it.batch_tokens_size.val
        sum_s == Sum(Take(CutFromF, k))
        sum_t == Sum(Take(CutFromL, k))
    IN  \/ sum_s >= b \/ sum_t >= b
        \/ b - sum_s < TokenMargin \/ b - sum_t < TokenMargin
        \/ k >= Len(CutFromF)

IsScript ==
    /\ it.features_reader.lens = ScriptLens /\ it.labels_reader.lens = ScriptLens
    /\ it.batch_size = 1 /\ it.batch_tokens_size = Some(ScriptBudget)

\* C8: in token-budget mode a batch holds the first min(k, cache length)
\* cached pairs, k the least count >= batch_size at which a length sum has
\* reached the budget, or is within less than 20 of it, or the cache is used
\* up; the scripted corpus gives a batch of 9 pairs (sums 90) and then one
\* of the remaining 2 (sums 100).
C8_TokenGrowth ==
    (ret.kind = "batch" /\ it.batch_tokens_size.some) =>
        /\ \E k \in it.batch_size..(it.batch_size + Len(CutFromF)) :
              /\ StopsAt(k)
              /\ \A j \in it.batch_size..(k - 1) : ~StopsAt(j)
              /\ Len(ret.features) = Min(k, Len(CutFromF))
              /\ Len(ret.labels) = Min(k, Len(CutFromL))
        /\ IsScript =>
              \/ /\ emitted = [i \in 1..9 |-> i]
                 /\ Len(ret.features) = 9
                 /\ Sum(Lens(ret.features)) = 90 /\ Sum(Lens(ret.labels)) = 90
              \/ /\ emitted = [i \in 1..11 |-> i]
                 /\ Len(ret.features) = 2
                 /\ Sum(Lens(ret.features)) = 100 /\ Sum(Lens(ret.labels)) = 100

\* the second batch of the scripted corpus
C8_Witness ==
    /\ IsScript /\ ret.kind = "batch"
    /\ Len(emitted) = 11 /\ Len(ret.features) = 2

-----------------------------------------------------------------------------
(* Properties of the single-corpus batcher. *)

\* the well-formed lines of a corpus, in order, as the reader gives them
RECURSIVE WellFormedFrom(_, _)
WellFormedFrom(lens, i) ==
    IF i > Len(lens) THEN <<>>
    ELSE (IF lens[i] = 0 THEN <<>> ELSE <<MkSeq("features", i, lens[i])>>)
         \o WellFormedFrom(lens, i + 1)

\* C9: the result is ceil(n / batch_size) batches, batch i the well-formed
\* sequences at positions [i*batch_size, (i+1)*batch_size) in order, none
\* empty, only the last possibly shorter, and the reader closed once.
C9_LineBatches ==
    line.phase = "made" =>
        LET wf == WellFormedFrom(line.reader.lens, 1)
            n == Len(wf)
            bs == line.self.batch_size
        IN  /\ Len(line.data) = (n + bs - 1) \div bs
            /\ \A i \in 1..Len(line.data) :
                  /\ line.data[i].ids[1] =
                        SubSeq(wf, (i - 1) * bs + 1, Min(i * bs, n))
                  /\ Len(line.data[i].ids[1]) > 0
                  /\ i < Len(line.data) => Len(line.data[i].ids[1]) = bs
            /\ line.reader.closed = 1

\* several batches, the last one short, out of a corpus with a malformed
\* line in the middle
C9_Witness ==
    /\ line.phase = "made"
    /\ Len(line.data) >= 2
    /\ Len(line.data[Len(line.data)].ids[1]) < line.self.batch_size
    /\ \E i \in 2..(Len(line.reader.lens) - 1) : line.reader.lens[i] = 0

-----------------------------------------------------------------------------
(* Properties of the assembler. *)

\* C10: with c = ceil(B / D), slot i holds the positions
\* [i*c, min((i+1)*c, B)); a slot starting at or past B has count 0 and
\* no arrays; the counts sum to B; a slot with fewer than c is followed
\* only by empty slots.
C10_DevicePartition ==
    pack.phase = "done" =>
        LET B == Len(pack.d)
            D == pack.n_devices
            c == (B + D - 1) \div D
            counts == pack.data.val.parallels.val
            slots == pack.data.val.feed[1]
        IN  /\ Len(counts) = D /\ Len(slots) = D
            /\ Sum(counts) = B
            /\ \A i \in 0..(D - 1) :
                  IF i * c >= B
                  THEN counts[i + 1] = 0 /\ ~slots[i + 1].fed
                  ELSE /\ counts[i + 1] = Min((i + 1) * c, B) - i * c
                       /\ slots[i + 1].fed
                       /\ Len(slots[i + 1].x) = counts[i + 1]
                       /\ \A r \in 1..counts[i + 1] :
                             SubSeq(slots[i + 1].x[r], 1, slots[i + 1].x_len[r])
                                = pack.d[i * c + r]
            /\ \A i \in 1..D :
                  counts[i] # c => \A j \in (i + 1)..D : counts[j] = 0

\* full slots, then one with the remainder, then an empty one
C10_Witness ==
    /\ pack.phase = "done"
    /\ pack.data.val.parallels.val = <<2, 2, 1, 0>>

-----------------------------------------------------------------------------
(* Properties of the padding. *)

\* the sequences of component k that went to slot i (0-based)
SliceOf(k, i) ==
    LET B == Len(pack.d[k])
        c == (B + pack.n_devices - 1) \div pack.n_devices
    IN  SubSeq(pack.d[k], Min(i * c, B) + 1, Min((i + 1) * c, B))

\* the rows of a fed slot are as long as `width`, hold their sequence, then
\* the padding id of the component, and the recorded lengths are the true ones
PaddedTo(k, i, width) ==
    LET slot == pack.data.val.feed[k][i + 1]
        seqs == SliceOf(k, i)
    IN  slot.fed =>
          /\ Len(slot.x) = Len(seqs) /\ Len(slot.x_len) = Len(seqs)
          /\ \A r \in 1..Len(seqs) :
                /\ Len(slot.x[r]) = width
                /\ slot.x_len[r] = Len(seqs[r])
                /\ \A q \in 1..Len(slot.x[r]) :
                      slot.x[r][q] = IF q <= Len(seqs[r]) THEN seqs[r][q]
                                     ELSE pack.p[k]

\* C11 as stated: every padded row of a component is as long as the longest
\* sequence of the whole batch, whatever the number of device slots.
C11_PaddedToBatchMax ==
    pack.phase = "packed" =>
        \A k \in 1..Len(pack.d) : \A i \in 0..(pack.n_devices - 1) :
            PaddedTo(k, i, MaxOf(Lens(pack.d[k])))

\* C11 amended: every padded row of a slot is as long as the longest
\* sequence of that slot's slice of the component (the whole batch when
\* there is one slot); the recorded lengths are the true lengths and the
\* positions past them hold the component's padding id.
C11_PaddedToSliceMax ==
    pack.phase = "packed" =>
        \A k \in 1..Len(pack.d) : \A i \in 0..(pack.n_devices - 1) :
            /\ PaddedTo(k, i, MaxOf(Lens(SliceOf(k, i))))
            /\ pack.n_devices = 1 => SliceOf(k, i) = pack.d[k]

\* two slots of one component padded to different widths, one of them with
\* padding in a row
C11_Witness ==
    /\ pack.phase = "packed" /\ pack.n_devices = 2
    /\ \E k \in 1..2 :
          LET a == pack.data.val.feed[k][1]
              b == pack.data.val.feed[k][2]
          IN  /\ a.fed /\ b.fed
              /\ Len(a.x[1]) # Len(b.x[1])
              /\ \E r \in 1..Len(a.x) : a.x_len[r] < Len(a.x[r])

-----------------------------------------------------------------------------
(* Properties of do_bucketing. *)

\* the input position of the element at output position i
FromPos(i) == Src(call.result[1][i])

\* C12: the returned primary list is a permutation of the given one in
\* non-decreasing length, the other lists come back as one list of lists
\* reordered by that same permutation, every list as long as it was, and
\* the lists given are left as they were.
C12_BucketingResult ==
    call.phase = "bucketed" =>
        LET n == Len(call.given[1])
            _pivot == call.result[1]
            _args == call.result[2]
        IN  /\ Len(call.result) = 2
            /\ Len(_pivot) = n
            /\ Len(_args) = Len(call.given[2])
            /\ \A k \in 1..Len(_args) : Len(_args[k]) = n
            /\ \E p \in PermsOf(1..n) :
                  /\ \A i \in 1..n : _pivot[i] = call.given[1][p[i]]
                  /\ \A k \in 1..Len(_args) : \A i \in 1..n :
                        _args[k][i] = call.given[2][k][p[i]]
            /\ \A i \in 1..(n - 1) : Len(_pivot[i]) <= Len(_pivot[i + 1])
            /\ call.pivot = call.given[1] /\ call.args = call.given[2]

\* three elements given longest first, with two other lists
C12_Witness ==
    /\ call.phase = "bucketed"
    /\ Len(call.given[1]) = 3 /\ Len(call.given[2]) = 2
    /\ Lens(call.given[1]) = <<3, 2, 1>>
    /\ Lens(call.result[1]) = <<1, 2, 3>>

\* C13 as stated: elements of equal length keep their relative order.
C13_Stable ==
    call.phase = "bucketed" =>
        \A i, j \in 1..Len(call.result[1]) :
            (i < j /\ Len(call.result[1][i]) = Len(call.result[1][j]))
                => FromPos(i) < FromPos(j)

\* C13 amended: of two elements the one that comes out later is never the
\* shorter, and two of different lengths come out each once, the shorter
\* first; two of equal length come out in either order, as the sort is not
\* stable.  The elements of the other lists come out where their primary
\* element does.
C13_OrderedUpToTies ==
    call.phase = "bucketed" =>
        /\ \A i, j \in 1..Len(call.result[1]) :
              i < j =>
                /\ Len(call.result[1][i]) <= Len(call.result[1][j])
                /\ FromPos(i) # FromPos(j)
        /\ \A k \in 1..Len(call.result[2]) : \A i \in 1..Len(call.result[1]) :
              Src(call.result[2][k][i]) = FromPos(i)

\* two elements of equal length come out in the other order, an element of
\* another list with them
C13_Witness ==
    /\ call.phase = "bucketed"
    /\ Len(call.result[2]) >= 1
    /\ \E i, j \in 1..Len(call.result[1]) :
          /\ i < j /\ Len(call.result[1][i]) = Len(call.result[1][j])
          /\ FromPos(i) > FromPos(j)
          /\ Src(call.result[2][1][i]) > Src(call.result[2][1][j])

-----------------------------------------------------------------------------
(* Properties of the public entry points. *)

\* the constructor has been called
Constructed == call.phase \in {"rejected", "built", "ValueError", "list", "iterator"}

\* C15: the constructor refuses exactly the arguments with neither
\* batch_size nor batch_tokens_size; otherwise batch_size is the one given,
\* or 32 when only batch_tokens_size is, and the cache target is
\* batch_size*128 without batch_tokens_size and batch_tokens_size*6 with
\* it; with batch_tokens_size (batch_size given too or not) a streamed batch
\* grows from batch_size pairs by the token budget, without it a batch is
\* batch_size pairs or what the cache has.
C15_BatchSizeConfig ==
    /\ Constructed =>
          /\ call.phase = "rejected" <=>
                (~call.a.batch_size.some /\ ~call.a.batch_tokens_size.some)
          /\ call.phase # "rejected" =>
                /\ call.self.error = ""
                /\ call.self.batch_tokens_size = call.a.batch_tokens_size
                /\ call.self.batch_size =
                      IF call.a.batch_size.some THEN call.a.batch_size.val
                      ELSE DefaultBatchSize
                /\ call.self.cache_size =
                      IF ~call.a.batch_tokens_size.some
                      THEN call.a.batch_size.val * CacheFactor
                      ELSE call.a.batch_tokens_size.val * TokenCacheFactor
    /\ (call.phase = "iterator" /\ ret.kind = "batch") =>
          /\ it.batch_size = call.self.batch_size
          /\ it.cache_size = call.self.cache_size
          /\ IF call.a.batch_tokens_size.some
             THEN /\ StopsAt(Len(ret.features))
                  /\ \A j \in it.batch_size..(Len(ret.features) - 1) : ~StopsAt(j)
                  /\ Len(ret.features) >= Min(it.batch_size, Len(CutFromF))
             ELSE Len(ret.features) = Min(it.batch_size, Len(CutFromF))

\* both given: a streamed batch of two pairs from a batch_size of one
C15_Witness ==
    /\ call.phase = "iterator" /\ ret.kind = "batch"
    /\ call.a.batch_size = Some(1) /\ call.a.batch_tokens_size.some
    /\ Len(ret.features) = 2

\* make_feeding_data has been called
Asked == call.phase \in {"ValueError", "list", "iterator"}

\* C16: make_feeding_data raises exactly when in_memory comes with
\* fill_full_batch or shuffle_every_epoch, and then no reader has been read,
\* reset or closed and nothing was made; with in_memory alone it returns
\* the list, the readers drained and closed; without in_memory it returns
\* the iterator, its readers reset once and once more per end-of-epoch.
C16_FacadeRejection ==
    Asked =>
        /\ call.phase = "ValueError" <=>
              (call.in_memory /\ (call.a.fill_full_batch \/ call.a.shuffle_every_epoch))
        /\ call.phase = "ValueError" =>
              /\ call.self.features_reader = call.a.features_reader
              /\ call.self.labels_reader = call.a.labels_reader
              /\ call.self.features_reader.calls = 0
              /\ call.self.features_reader.resets = 0
              /\ call.self.features_reader.closed = 0
              /\ call.data = <<>> /\ it = IdleIt
        /\ call.phase = "list" <=>
              (call.in_memory /\ ~call.a.fill_full_batch /\ ~call.a.shuffle_every_epoch)
        /\ call.phase = "list" =>
              /\ it = IdleIt
              /\ call.self.features_reader.closed = 1
              /\ call.self.labels_reader.closed = 1
              /\ call.self.features_reader.resets = 0
              /\ Len(call.data) =
                    (Len(call.a.features_reader.lens) + call.self.batch_size - 1)
                        \div call.self.batch_size
        /\ call.phase = "iterator" <=> ~call.in_memory
        /\ call.phase = "iterator" =>
              /\ it # IdleIt /\ call.data = <<>>
              /\ it.features_reader.closed = 0
              /\ it.features_reader.resets = stops + 1
              /\ it.labels_reader.resets = stops + 1

\* refused for shuffle_every_epoch alone
C16_Witness ==
    /\ call.phase = "ValueError"
    /\ call.in_memory /\ call.a.shuffle_every_epoch /\ ~call.a.fill_full_batch
    /\ Len(call.a.features_reader.lens) = 2

\* C19: a batch record of the iterator has no "parallels" exactly when
\* fill_full_batch is set, and otherwise carries the per-slot counts; the
\* records of the in-memory list and of the single-corpus list all carry it.
C19_ParallelsField ==
    /\ (call.phase = "iterator" /\ ret.kind = "batch") =>
          /\ ~ReturnedData.parallels.some <=> it.fill_full_batch
          /\ ReturnedData.parallels.some =>
                Sum(ReturnedData.parallels.val) = Len(ret.features)
    /\ call.phase = "list" =>
          \A i \in 1..Len(call.data) :
              /\ call.data[i].parallels.some
              /\ Sum(call.data[i].parallels.val) = Len(call.data[i].ids[1])
    /\ line.phase = "made" =>
          \A i \in 1..Len(line.data) :
              /\ line.data[i].parallels.some
              /\ Sum(line.data[i].parallels.val) = Len(line.data[i].ids[1])

\* a batch record of a fill_full_batch iterator, without the field
C19_Witness ==
    /\ call.phase = "iterator" /\ ret.kind = "batch"
    /\ it.fill_full_batch
    /\ ~ReturnedData.parallels.some
    /\ Len(ReturnedData.ids[1]) = 2

-----------------------------------------------------------------------------
(* Properties of the in-memory batcher. *)

\* the sequences of component k of all the batches of a list, in order
RECURSIVE AllIds(_, _)
AllIds(data, k) ==
    IF Len(data) = 0 THEN <<>> ELSE data[1].ids[k] \o AllIds(Tail(data), k)

\* the lines both corpora given to the constructor have, with a sequence on
\* both sides
GivenPairs ==
    {i \in 1..Min(Len(call.a.features_reader.lens), Len(call.a.labels_reader.lens)) :
        call.a.features_reader.lens[i] # 0 /\ call.a.labels_reader.lens[i] # 0}

\* C18: the list has ceil(n / batch_size) batches; together they hold each
\* of the n pairs once, the feature of a line with the label of that line;
\* every batch but the last has batch_size pairs and the last from 1 to
\* batch_size, with or without batch_tokens_size; the pairs are in
\* non-decreasing label length with bucketing and in source order without;
\* both readers are closed once.
C18_InMemoryBatches ==
    call.phase = "list" =>
        LET n == Cardinality(GivenPairs)
            bs == call.a.batch_size.val
            F == AllIds(call.data, 1)
            L == AllIds(call.data, 2)
        IN  /\ Len(call.data) = (n + bs - 1) \div bs
            /\ Len(F) = n /\ Len(L) = n
            /\ \A i \in 1..n :
                  /\ Src(F[i]) \in GivenPairs
                  /\ F[i] = MkSeq("features", Src(F[i]),
                                  call.a.features_reader.lens[Src(F[i])])
                  /\ L[i] = MkSeq("labels", Src(F[i]),
                                  call.a.labels_reader.lens[Src(F[i])])
            /\ \A i, j \in 1..n : Src(F[i]) = Src(F[j]) => i = j
            /\ \A b \in 1..Len(call.data) :
                  /\ Len(call.data[b].ids[1]) = Len(call.data[b].ids[2])
                  /\ Len(call.data[b].ids[1]) \in 1..bs
                  /\ b < Len(call.data) => Len(call.data[b].ids[1]) = bs
            /\ IF call.a.bucketing
               THEN \A i \in 1..(n - 1) : Len(L[i]) <= Len(L[i + 1])
               ELSE \A i \in 1..(n - 1) : Src(F[i]) < Src(F[i + 1])
            /\ call.self.features_reader.closed = 1
            /\ call.self.labels_reader.closed = 1

\* two batches, the second short, bucketed out of source order, out of
\* corpora with a token budget given
C18_Witness ==
    /\ call.phase = "list"
    /\ call.a.bucketing /\ call.a.batch_tokens_size.some
    /\ call.a.batch_size = Some(2)
    /\ Len(call.data) = 2
    /\ Len(call.data[2].ids[1]) = 1
    /\ Src(call.data[1].ids[1][1]) > Src(call.data[2].ids[1][1])

-----------------------------------------------------------------------------
(* Properties of the unending runs. *)

\* the corpora have a line with a sequence on both sides
HasPair == WellFormedPairs >= 1

-----------------------------------------------------------------------------
(* Properties of the refill. *)

\* what a reader gives at position p of its order
TagAt(rd, p) ==
    IF p > Len(rd.order) THEN "end"
    ELSE IF rd.lens[rd.order[p]] = 0 THEN "none" ELSE "seq"

\* whether the j-th read of a pull, counted from 0, finds a reader at its end
EndRead(j) ==
    \/ TagAt(it.features_reader, it.features_reader.pos + j) = "end"
    \/ TagAt(it.labels_reader, it.labels_reader.pos + j) = "end"

\* the well-formed pairs among the first k reads of a pull
PairsRead(k) ==
    Cardinality({j \in 0..(k - 1) :
        /\ TagAt(it.features_reader, it.features_reader.pos + j) = "seq"
        /\ TagAt(it.labels_reader, it.labels_reader.pos + j) = "seq"})

\* the calls of next() a step makes on each reader
ReadsOfFeatures == it'.features_reader.calls - it.features_reader.calls

ReadsOfLabels == it'.labels_reader.calls - it.labels_reader.calls

\* C21: a pull calls the readers' next() only if the cache holds fewer than
\* batch_size pairs on entry; it reads both readers in step, goes on while
\* the cache is below the cache target and no reader has given the end
\* sentinel, and makes its last read when the cache reaches the target or a
\* reader gives the sentinel; the cache never holds more than the cache target.
C21_RefillDiscipline ==
    /\ [](Len(it.features_buffer) <= it.cache_size)
    /\ [][LET k == ReadsOfFeatures
              held == Len(it.features_buffer)
          IN  /\ ReadsOfLabels = k
              /\ k >= 0
              /\ k > 0 =>
                   /\ ~it.end_of_data
                   /\ held < it.batch_size
                   /\ held < it.cache_size
                   /\ \A j \in 0..(k - 2) :
                         ~EndRead(j) /\ held + PairsRead(j + 1) < it.cache_size
                   /\ EndRead(k - 1) \/ held + PairsRead(k) = it.cache_size
              /\ (k = 0 /\ ~it.end_of_data /\ held < it.batch_size) =>
                   held >= it.cache_size
         ]_vars

\* a refill has stopped at the cache target with lines left to read, past a
\* malformed line, and the batch has been cut off the full cache
C21_Witness ==
    /\ it.cache_size = TokenCacheFactor
    /\ ret.kind = "batch"
    /\ Len(ret.features) + Len(it.features_buffer) = it.cache_size
    /\ it.features_reader.pos <= Len(it.features_reader.lens)
    /\ it.labels_reader.pos <= Len(it.labels_reader.lens)
    /\ it.features_reader.pos > it.cache_size + 1
    /\ stops = 0

-----------------------------------------------------------------------------
(* Properties of the reset. *)

\* C22: every reset cycle, the one of the construction and the one of each
\* end of epoch, resets the features reader first with no permutation given,
\* then the labels reader with the permutation the features reader returned
\* in this cycle and with the same shuffle setting; there is one cycle for
\* the construction and one per end-of-epoch signal.
C22_LinkedReshuffle ==
    /\ Len(it.reset_calls) = 2
    /\ it.reset_calls[1].reader = "features"
    /\ it.reset_calls[1].do_shuffle = it.shuffle_every_epoch
    /\ it.reset_calls[1].argsort_index = None
    /\ it.reset_calls[2].reader = "labels"
    /\ it.reset_calls[2].do_shuffle = it.reset_calls[1].do_shuffle
    /\ it.reset_calls[2].argsort_index = it.reset_calls[1].returned
    /\ it.features_reader.resets = stops + 1
    /\ it.labels_reader.resets = stops + 1
    /\ it.shuffle_every_epoch =>
          /\ it.reset_calls[1].returned.some
          /\ it.features_reader.order = it.reset_calls[1].returned.val
          /\ it.labels_reader.order = it.reset_calls[1].returned.val

\* two epochs have ended with shuffling, and the last cycle drew a
\* permutation that moves the lines
C22_Witness ==
    /\ it.shuffle_every_epoch
    /\ stops = MaxEpochs
    /\ Len(it.features_reader.lens) = MaxLines
    /\ it.reset_calls[2].argsort_index.some
    /\ it.reset_calls[2].argsort_index.val # Identity(MaxLines)

-----------------------------------------------------------------------------
(* Properties of the cut. *)

\* the cache a pull cuts its batch from, for the index array tidx: the cache
\* on entry, or the refilled and bucketed one
CacheAtCut(tidx) == IF NeedsRefill(it) THEN Rebucket(Refilled(it), tidx) ELSE it

\* whether the list `after` is the list `before` without its first n entries
WithoutPrefix(before, after, n) ==
    /\ Len(after) = Len(before) - n
    /\ \A i \in 1..Len(after) : after[i] = before[n + i]

\* C23: a pull that emits a batch of n pairs removes the first n entries of
\* the features cache, of the labels cache and of both length arrays, leaves
\* the other entries as they were and in their order, and the batch is the
\* removed prefix; a batch that takes the whole cache leaves the four lists
\* empty.
C23_CacheConsumption ==
    [][ret'.kind = "batch" =>
         \E tidx \in TidxChoices(it) :
            LET cache == CacheAtCut(tidx)
                n == Len(ret'.features)
            IN  /\ n >= 1
                /\ n <= Len(cache.features_buffer)
                /\ Len(ret'.labels) = n
                /\ \A i \in 1..n : /\ ret'.features[i] = cache.features_buffer[i]
                                   /\ ret'.labels[i] = cache.labels_buffer[i]
                /\ WithoutPrefix(cache.features_buffer, it'.features_buffer, n)
                /\ WithoutPrefix(cache.labels_buffer, it'.labels_buffer, n)
                /\ WithoutPrefix(cache.features_len_buffer, it'.features_len_buffer, n)
                /\ WithoutPrefix(cache.labels_len_buffer, it'.labels_len_buffer, n)
                /\ n = Len(cache.features_buffer) =>
                      /\ it'.features_buffer = <<>>
                      /\ it'.labels_buffer = <<>>
                      /\ it'.features_len_buffer = <<>>
                      /\ it'.labels_len_buffer = <<>>
      ]_vars

\* a batch has been cut off a bucketed cache at its target, and more than
\* one pair is left in the cache, with its lengths
C23_Witness ==
    /\ ret.kind = "batch"
    /\ it.bucketing
    /\ Len(ret.features) + Len(it.features_buffer) = TokenCacheFactor
    /\ Len(it.features_buffer) >= 2
    /\ it.labels_len_buffer = Lens(it.labels_buffer)
    /\ it.labels_len_buffer[1] # it.labels_len_buffer[2]

-----------------------------------------------------------------------------
(* Properties of the order of the cache. *)

NonDecreasing(lens) == \A i \in 1..(Len(lens) - 1) : lens[i] <= lens[i + 1]

\* the batch of the last pull, if it gave one, followed by the cache
LabelsAtCut == (IF ret.kind = "batch" THEN ret.labels ELSE <<>>) \o it.labels_buffer

FeaturesAtCut ==
    (IF ret.kind = "batch" THEN ret.features ELSE <<>>) \o it.features_buffer

\* the well-formed pairs of the reads j..k-1 of a pull, one side of them, in
\* the order they are read
RECURSIVE ReadPairs(_, _, _)
ReadPairs(rd, j, k) ==
    IF j >= k THEN <<>>
    ELSE (IF /\ TagAt(it.features_reader, it.features_reader.pos + j) = "seq"
             /\ TagAt(it.labels_reader, it.labels_reader.pos + j) = "seq"
          THEN <<MkSeq(rd.side, rd.order[rd.pos + j], rd.lens[rd.order[rd.pos + j]])>>
          ELSE <<>>) \o ReadPairs(rd, j + 1, k)

\* C24: with bucketing, after every pull the batch it gave followed by the
\* cache is in non-decreasing order of label length, so the cache is, and so
\* is every batch; without bucketing the batch followed by the cache is the
\* cache on entry followed by the pairs the pull read, in the order read.
C24_BucketedCache ==
    /\ [](it.bucketing => NonDecreasing(Lens(LabelsAtCut)))
    /\ [](it.bucketing => NonDecreasing(Lens(it.labels_buffer)))
    /\ [](it.bucketing /\ ret.kind = "batch" => NonDecreasing(Lens(ret.labels)))
    /\ [][~it.bucketing =>
            /\ FeaturesAtCut' =
                 it.features_buffer \o ReadPairs(it.features_reader, 0, ReadsOfFeatures)
            /\ LabelsAtCut' =
                 it.labels_buffer \o ReadPairs(it.labels_reader, 0, ReadsOfLabels)
         ]_vars

\* in the second epoch a refill has added to the pair left over from the
\* first, and the bucketing has moved that pair away from the front
C24_Witness ==
    /\ it.bucketing
    /\ it.fill_full_batch
    /\ stops = 1
    /\ ret.kind = "batch"
    /\ Len(LabelsAtCut) = TokenCacheFactor
    /\ Len(it.features_reader.lens) = RotLines
    /\ Src(LabelsAtCut[1]) # RotLines
    /\ \E i \in 2..Len(LabelsAtCut) : Src(LabelsAtCut[i]) = RotLines

-----------------------------------------------------------------------------
(* Properties of the token sums of a batch. *)

\* the tokens of a list of sequences
Tokens(seqs) == Sum(Lens(seqs))

\* the last pull grew its batch beyond batch_size pairs
Grown == ret.kind = "batch" /\ Len(ret.features) > it.batch_size

\* C25: in token-budget mode, when a pull grew the batch beyond batch_size
\* pairs, the features and the labels of the batch without its last pair
\* have at most batch_tokens_size - TokenMargin tokens each; a batch with
\* more than batch_tokens_size tokens on a side is either grown, and within
\* the budget without its last pair, or is the first batch_size pairs.
C25_OvershootBound ==
    /\ Grown =>
          /\ it.batch_tokens_size.some
          /\ Tokens(Take(ret.features, Len(ret.features) - 1))
                <= it.batch_tokens_size.val - TokenMargin
          /\ Tokens(Take(ret.labels, Len(ret.labels) - 1))
                <= it.batch_tokens_size.val - TokenMargin
    /\ (/\ ret.kind = "batch"
        /\ it.batch_tokens_size.some
        /\ \/ Tokens(ret.features) > it.batch_tokens_size.val
           \/ Tokens(ret.labels) > it.batch_tokens_size.val) =>
          \/ Len(ret.features) <= it.batch_size
          \/ /\ Tokens(Take(ret.features, Len(ret.features) - 1))
                  < it.batch_tokens_size.val
             /\ Tokens(Take(ret.labels, Len(ret.labels) - 1))
                  < it.batch_tokens_size.val

\* a grown batch whose last pair has taken the labels over the budget and
\* left the features within it
C25_Witness ==
    /\ Grown
    /\ it.batch_tokens_size = Some(BudgetTokens)
    /\ Tokens(ret.labels) > it.batch_tokens_size.val
    /\ Tokens(ret.features) <= it.batch_tokens_size.val
    /\ Tokens(Take(ret.labels, Len(ret.labels) - 1))
          = it.batch_tokens_size.val - TokenMargin

-----------------------------------------------------------------------------
(* Properties of the end of a pull. *)

\* the lines a reader has left to give
Remaining(rd) == IF rd.pos > Len(rd.order) THEN 0 ELSE Len(rd.order) - rd.pos + 1

\* what a pull made now may come to
PullOutcomes ==
    UNION {{next(it, tidx, fresh) : fresh \in FreshChoices(it, tidx)}
           : tidx \in TidxChoices(it)}

\* C26: whatever the state, a pull comes to an end: it returns a batch of at
\* least one pair or signals the end of the epoch, after at most one next()
\* per line each reader has left and one more for the end sentinel, however
\* many lines are malformed.
C26_PullTerminates ==
    /\ it.batch_size >= 1
    /\ PullOutcomes # {}
    /\ \A r \in PullOutcomes :
          /\ \/ r.ret.kind = "stop"
             \/ /\ r.ret.kind = "batch"
                /\ Len(r.ret.features) >= 1
                /\ Len(r.ret.labels) = Len(r.ret.features)
          /\ r.self.features_reader.calls - it.features_reader.calls
                <= Remaining(it.features_reader) + 1
          /\ r.self.labels_reader.calls - it.labels_reader.calls
                <= Remaining(it.labels_reader) + 1
          /\ r.self.features_reader.calls >= it.features_reader.calls
          /\ r.self.labels_reader.calls >= it.labels_reader.calls

\* a pull over corpora of malformed lines only has read every line and the
\* end sentinel, and has signalled the end of the epoch
C26_Witness ==
    /\ ret.kind = "stop"
    /\ stops = 1
    /\ Len(it.features_reader.lens) = MaxLines
    /\ Len(it.labels_reader.lens) = MaxLines
    /\ \A i \in 1..MaxLines : it.features_reader.lens[i] = 0 \/ it.labels_reader.lens[i] = 0
    /\ it.features_reader.calls = MaxLines + 1
    /\ it.labels_reader.calls = MaxLines + 1

-----------------------------------------------------------------------------
(* Properties of the connection handler. *)

\* the turns in which a response was sent that was built in turn n
SentFrom(n) == {i \in 1..Len(conn.sent) : conn.sent[i].response.of = n}

\* the responses sent in turn n
SentAt(n) == {i \in 1..Len(conn.sent) : conn.sent[i].at = n}

IsClose(raw_data) ==
    LET request == unwrap_message(raw_data)
    IN  request.command = "control" /\ request.content = "close"

\* every message but the last has been answered over a connection that took
\* the answer; the last one has if the handler is still serving
TookAnswer(n) == n < Len(conn.inbox) \/ conn.phase = "serving"

\* the turns answer one for one: a message other than control/close gets one
\* response, whatever it was built from, and control/close ends the loop
\* without one
OneForOne ==
    \A n \in 1..Len(conn.inbox) :
       IF IsClose(conn.inbox[n])
       THEN /\ SentAt(n) = {}
            /\ n = Len(conn.inbox)
            /\ conn.phase = "closed"
       ELSE TookAnswer(n) => Cardinality(SentAt(n)) = 1

\* C27: every message received other than control/close is answered with
\* one response, built from that message: no response is sent in a later
\* turn than the one it was built in; control/close ends the loop without a
\* response.
C27_RequestResponse ==
    /\ OneForOne
    /\ \A i \in 1..Len(conn.sent) : conn.sent[i].response.of = conn.sent[i].at

====
